---- MODULE Spec2Model ----
(***************************************************************************)
(* The snake game: GameState (state.rs), the rule engine step (rules.rs),  *)
(* the game loop (systems.rs), the input latch (input.rs), the application *)
(* frame (main.rs), the high score store (persistence.rs) and the settings *)
(* (settings.rs).                                                          *)
(*                                                                         *)
(* The engine is generic over RngLike, so a draw is any u32; the model     *)
(* picks each draw from RngValues and records how many draws an operation  *)
(* made.  A sampling loop that can accept no cell never returns: that is   *)
(* recorded in `hung`.                                                     *)
(***************************************************************************)
EXTENDS Integers, Sequences, FiniteSets, TLC

VARIABLES
    features,   \* the cargo features the program was built with
    g,          \* the GameState
    hung,       \* the last operation never returned (a sampling loop spins)
    loop,       \* the Loop that drives g, when its RNG is a Seeded
    twin,       \* a second GameState and Loop, built from the same seeds
    app,        \* the SnakeApp around g: its input latch and the moves it made
    store,      \* the HighScoreStore, and how often each score was added per key
    conf        \* the SettingsStore, the Settings in hand and the last Result

vars == <<features, g, hung, loop, twin, app, store, conf>>

-----------------------------------------------------------------------------
(* Bounds of the exploration *)

\* rejected candidates explored per sampling loop before one is accepted
MaxRejections == 1

\* direct calls of step are explored while slow_skip_counter is below this
MaxSlowSkip == 2

\* a game is explored until its score reaches this
MaxScore == 2

\* an active effect is explored until this many of its ticks have elapsed
MaxElapsed == 1

-----------------------------------------------------------------------------
(* types.rs *)

Direction == {"Up", "Down", "Left", "Right"}

Position(x, y) == [x |-> x, y |-> y]

GridSize(w, h) == [w |-> w, h |-> h]

None == <<>>

Some(v) == <<v>>

is_some(o) == o # <<>>

unwrap(o) == o[1]

point_value(food_type) ==
    CASE food_type = "Normal" -> 1
      [] food_type = "Golden" -> 5
      [] food_type = "Special" -> 10

Food(position, food_type) == [position |-> position, food_type |-> food_type]

PowerUp(position, power_type, remaining_duration) ==
    [position |-> position, power_type |-> power_type,
     remaining_duration |-> remaining_duration]

\* durations with those of Slow and Fast exchanged
initial_duration_swapped(powerup) ==
    CASE powerup.power_type = "Slow" -> 15
      [] powerup.power_type = "Fast" -> 20
      [] powerup.power_type = "Poison" -> 0

initial_duration(powerup) ==
    CASE powerup.power_type = "Slow" -> 20
      [] powerup.power_type = "Fast" -> 15
      [] powerup.power_type = "Poison" -> 0

-----------------------------------------------------------------------------
(* rng.rs: a draw is a u32, kept as two 16-bit halves *)

U32(hi, lo) == [hi |-> hi, lo |-> lo]

\* the draws explored: 0, 1, 2, 3, 41, 82 and 0xFFFFFFFF
RngValues ==
    {U32(0, 0), U32(0, 1), U32(0, 2), U32(0, 3), U32(0, 41), U32(0, 82),
     U32(65535, 65535)}

\* `v as i32`: the same 32 bits read as two's complement
as_i32(v) ==
    IF v.hi >= 32768 THEN (v.hi - 65536) * 65536 + v.lo
    ELSE v.hi * 65536 + v.lo

\* i32 `%`: the remainder takes the sign of the dividend
i32_rem(a, n) ==
    IF a >= 0 THEN a % n ELSE -((((-(a + 1)) % n) + 1) % n)

\* i32::rem_euclid for a positive modulus
rem_euclid(a, n) ==
    LET r == i32_rem(a, n) IN IF r < 0 THEN r + n ELSE r

\* u32 `%`
u32_rem(v, n) == ((v.hi % n) * (65536 % n) + (v.lo % n)) % n

\* rng.rs Seeded: a u64, kept as its 8 bytes, byte 1 the lowest
u64_bytes(b1, b2, b3, b4, b5, b6, b7, b8) == <<b1, b2, b3, b4, b5, b6, b7, b8>>

\* the u64 of a number below 2^31
u64(n) ==
    u64_bytes(n % 256, (n \div 256) % 256, (n \div 65536) % 256, n \div 16777216,
              0, 0, 0, 0)

\* Seeded::new
Seeded_new(seed) == seed

\* a clone that starts over from seed 1
clone_reseeded(rng) == u64(1)

\* #[derive(Clone)]
clone(rng) == rng

\* byte j of x, 0 beyond its ends
byte_at(x, j) == IF j >= 1 /\ j <= 8 THEN x[j] ELSE 0

\* byte j of x >> k
shr_byte(x, k, j) ==
    LET q == k \div 8
        r == k % 8
    IN  (byte_at(x, j + q) \div (2 ^ r))
            + (byte_at(x, j + q + 1) % (2 ^ r)) * (2 ^ (8 - r))

\* u64 `>>`
shr(x, k) ==
    u64_bytes(shr_byte(x, k, 1), shr_byte(x, k, 2), shr_byte(x, k, 3),
              shr_byte(x, k, 4), shr_byte(x, k, 5), shr_byte(x, k, 6),
              shr_byte(x, k, 7), shr_byte(x, k, 8))

\* byte j of x << k
shl_byte(x, k, j) ==
    LET q == k \div 8
        r == k % 8
    IN  ((byte_at(x, j - q) * (2 ^ r)) % 256)
            + (byte_at(x, j - q - 1) \div (2 ^ (8 - r)))

\* u64 `<<`: the bits shifted out are lost
shl(x, k) ==
    u64_bytes(shl_byte(x, k, 1), shl_byte(x, k, 2), shl_byte(x, k, 3),
              shl_byte(x, k, 4), shl_byte(x, k, 5), shl_byte(x, k, 6),
              shl_byte(x, k, 7), shl_byte(x, k, 8))

\* `^` on one bit of two bytes
xor_bit(a, b, k) == ((((a \div (2 ^ k)) % 2) + ((b \div (2 ^ k)) % 2)) % 2) * (2 ^ k)

\* `^` on two bytes
xor_byte(a, b) ==
    xor_bit(a, b, 0) + xor_bit(a, b, 1) + xor_bit(a, b, 2) + xor_bit(a, b, 3)
        + xor_bit(a, b, 4) + xor_bit(a, b, 5) + xor_bit(a, b, 6) + xor_bit(a, b, 7)

\* u64 `^`
xor(x, y) ==
    u64_bytes(xor_byte(x[1], y[1]), xor_byte(x[2], y[2]), xor_byte(x[3], y[3]),
              xor_byte(x[4], y[4]), xor_byte(x[5], y[5]), xor_byte(x[6], y[6]),
              xor_byte(x[7], y[7]), xor_byte(x[8], y[8]))

\* 0x2545F4914F6CDD1D as its bytes, the lowest first
Multiplier == u64_bytes(29, 221, 108, 79, 145, 244, 69, 37)

\* the sum of the byte products that fall on byte k of a product
RECURSIVE column(_, _, _, _)
column(xb, mb, k, i) ==
    IF i > k THEN 0 ELSE xb[i + 1] * mb[k - i + 1] + column(xb, mb, k, i + 1)

\* the bytes k..7 of a product, the carry from the bytes below given
RECURSIVE product_bytes(_, _, _, _)
product_bytes(xb, mb, k, carry) ==
    IF k > 7 THEN <<>>
    ELSE CHOOSE bytes \in { <<t % 256>> \o product_bytes(xb, mb, k + 1, t \div 256) :
                            t \in {column(xb, mb, k, 0) + carry} } : TRUE

\* u64::wrapping_mul: the 8 bytes of x * m mod 2^64, the lowest first
wrapping_mul(x, mb) == product_bytes(x, mb, 0, 0)

\* line 24: the high 32 bits of x * 0x2545F4914F6CDD1D
output(x) ==
    CHOOSE value \in { U32(p[7] + 256 * p[8], p[5] + 256 * p[6]) :
                       p \in {wrapping_mul(x, Multiplier)} } : TRUE

\* x ^= x >> k
xorshift_right(x, k) == CHOOSE y \in { xor(v, shr(v, k)) : v \in {x} } : TRUE

\* x ^= x << k
xorshift_left(x, k) == CHOOSE y \in { xor(v, shl(v, k)) : v \in {x} } : TRUE

\* a next_u32 whose first shift is by 13
next_u32_shift_13(rng) ==
    CHOOSE r \in { [rng |-> x, value |-> output(x)] :
                   x \in {xorshift_right(xorshift_left(xorshift_right(rng, 13), 25), 27)} } :
        TRUE

\* Seeded::next_u32: the state it leaves and the value it returns
next_u32(rng) ==
    CHOOSE r \in { [rng |-> x, value |-> output(x)] :
                   x \in {xorshift_right(xorshift_left(xorshift_right(rng, 12), 25), 27)} } :
        TRUE

-----------------------------------------------------------------------------
(* Outcomes of an operation: the state it leaves, the next_u32 draws it    *)
(* made, the way each of its step calls returned, the Time ticks it made,  *)
(* and whether it spins for ever instead of returning.                     *)

Ret(s, n, p) == [g |-> s, draws |-> n, path |-> p, ticks |-> 0, hung |-> FALSE]

Spin(s) == [g |-> s, draws |-> 0, path |-> <<>>, ticks |-> 0, hung |-> TRUE]

\* the outcomes rs of the statements that follow outcome o, adding up the draws
Then(o, rs) ==
    IF o.hung THEN {o}
    ELSE { [g |-> r.g, draws |-> o.draws + r.draws,
            path |-> o.path \o r.path, ticks |-> o.ticks + r.ticks,
            hung |-> r.hung] : r \in rs }

\* numbers of rejected candidates explored before an accepted one
Rejections(rejected) == IF rejected = {} THEN {0} ELSE 0..MaxRejections

-----------------------------------------------------------------------------
(* rules.rs: sampling *)

\* a push that puts the new head in twice
push_front_twice(body, p) == <<p, p>> \o body

push_front(body, p) == <<p>> \o body

pop_back(body) == SubSeq(body, 1, Len(body) - 1)

on_snake(snake, p) == \E i \in 1..Len(snake.body) : snake.body[i] = p

on_foods(foods, p) == \E i \in 1..Len(foods) : foods[i].position = p

cells(grid) == { Position(x, y) : x \in 0..(grid.w - 1), y \in 0..(grid.h - 1) }

\* a coordinate taken with `%`, which is negative for a negative draw
coord_signed(v, n) == i32_rem(as_i32(v), n)

\* the coordinate a draw selects: (next_u32() as i32).rem_euclid(n)
coord(v, n) == rem_euclid(as_i32(v), n)

\* the lengths of the axes of the grids explored
AxisLengths == 1..7

\* the coordinates the explored draws select on an axis of length n
coords == [n \in AxisLengths |-> { coord(v, n) : v \in RngValues }]

\* the cells two consecutive draws can select
candidates(grid) == { Position(x, y) : x \in coords[grid.w], y \in coords[grid.h] }

\* a loop that samples until a cell outside blocked comes up never returns
\* when the grid has no such cell
spins(grid, blocked) == cells(grid) \subseteq blocked

snake_cells(snake) == { snake.body[i] : i \in 1..Len(snake.body) }

foods_cells(foods) == { foods[i].position : i \in 1..Len(foods) }

\* a spawn_food that accepts the first candidate, on the snake or not
spawn_food_anywhere(grid, snake) ==
    { [hung |-> FALSE, position |-> p, draws |-> 2] : p \in candidates(grid) }

\* rules.rs spawn_food: {[hung, position, draws]}
spawn_food(grid, snake) ==
    LET cands == candidates(grid)
        free == cands \ snake_cells(snake)
        rejected == cands \cap snake_cells(snake)
    IN  IF free = {} /\ spins(grid, snake_cells(snake)) THEN {[hung |-> TRUE]}
        ELSE { [hung |-> FALSE, position |-> p, draws |-> 2 * (k + 1)] :
               p \in free, k \in Rejections(rejected) }

food_type_of(roll) ==
    IF roll < 70 THEN "Normal" ELSE IF roll < 95 THEN "Golden" ELSE "Special"

\* rules.rs determine_food_type: one draw
determine_food_type == { food_type_of(u32_rem(v, 100)) : v \in RngValues }

\* rules.rs spawn_food_with_type: {[hung, food, draws]}
spawn_food_with_type(grid, snake, existing_foods) ==
    LET cands == candidates(grid)
        blocked == snake_cells(snake) \cup foods_cells(existing_foods)
        free == cands \ blocked
        rejected == cands \cap blocked
    IN  IF free = {} /\ spins(grid, blocked) THEN {[hung |-> TRUE]}
        ELSE { [hung |-> FALSE, food |-> Food(p, t), draws |-> 1 + 2 * (k + 1)] :
               p \in free, t \in determine_food_type, k \in Rejections(rejected) }

powerup_type_of(roll) ==
    IF roll < 40 THEN "Slow" ELSE IF roll < 80 THEN "Fast" ELSE "Poison"

\* rules.rs determine_powerup_type: one draw
determine_powerup_type == { powerup_type_of(u32_rem(v, 100)) : v \in RngValues }

\* the sampling loop of spawn_powerup gives up once attempts exceeds this
AttemptCap == 100

\* a power-up is spawned when the roll is below this
SpawnChance == 10

\* the remaining_duration spawn_powerup stores
spawn_duration(power_type) ==
    CASE power_type = "Slow" -> 20
      [] power_type = "Fast" -> 15
      [] power_type = "Poison" -> 0

\* the rolls of lines 236-239: next_u32() % 100
rolls == { u32_rem(v, 100) : v \in RngValues }

\* rules.rs spawn_powerup: {[powerup, draws, roll]}; food_cells are the cells
\* of the food (single-food build) or of the foods (multiple_foods build),
\* roll is the value of next_u32() % 100 at line 237
spawn_powerup(grid, snake, existing_powerup, food_cells) ==
    LET cands == candidates(grid)
        blocked == snake_cells(snake) \cup food_cells
                     \cup (IF is_some(existing_powerup)
                           THEN {unwrap(existing_powerup).position} ELSE {})
        free == cands \ blocked
        rejected == cands \cap blocked
    IN  IF is_some(existing_powerup) THEN {[powerup |-> None, draws |-> 0]}
        ELSE { [powerup |-> None, draws |-> 1, roll |-> roll] :
               roll \in { r \in rolls : r >= SpawnChance } }
             \cup
             { [powerup |-> Some(PowerUp(p, t, spawn_duration(t))),
                draws |-> 2 + 2 * (k + 1), roll |-> roll] :
               roll \in { r \in rolls : r < SpawnChance },
               p \in free, t \in determine_powerup_type,
               k \in { j \in Rejections(rejected) : j <= AttemptCap } }
             \cup
             (IF rejected # {}
              THEN { [powerup |-> None, draws |-> 2 + 2 * (AttemptCap + 1),
                      roll |-> roll] :
                     roll \in { r \in rolls : r < SpawnChance } }
              ELSE {})

-----------------------------------------------------------------------------
(* rules.rs: the rule engine *)

\* a next_head that takes Up for Down and Left for Right
next_head_mirrored(head, dir) ==
    CASE dir = "Up" -> Position(head.x, head.y + 1)
      [] dir = "Down" -> Position(head.x, head.y - 1)
      [] dir = "Left" -> Position(head.x + 1, head.y)
      [] dir = "Right" -> Position(head.x - 1, head.y)

next_head(head, dir) ==
    CASE dir = "Up" -> Position(head.x, head.y - 1)
      [] dir = "Down" -> Position(head.x, head.y + 1)
      [] dir = "Left" -> Position(head.x - 1, head.y)
      [] dir = "Right" -> Position(head.x + 1, head.y)

out_of_bounds(p, grid) == p.x < 0 \/ p.y < 0 \/ p.x >= grid.w \/ p.y >= grid.h

\* a wrap that leaves the cell where it is
wrap_position_unwrapped(p, grid) == p

wrap_position(p, grid) == Position(rem_euclid(p.x, grid.w), rem_euclid(p.y, grid.h))

\* the cell the head is about to enter (after wrapping, when wrapping applies)
wrapped_next_of(f, s) ==
    LET next == next_head(Head(s.snake.body), s.snake.dir)
    IN  IF f.wrap_walls /\ s.wrap_walls /\ out_of_bounds(next, s.grid)
        THEN wrap_position(next, s.grid)
        ELSE next

\* a wall check that never ends the game
should_never_end_game(f, s) == FALSE

should_end_game(f, s) ==
    LET next == next_head(Head(s.snake.body), s.snake.dir)
    IN  IF f.wrap_walls THEN ~s.wrap_walls /\ out_of_bounds(next, s.grid)
        ELSE out_of_bounds(next, s.grid)

\* a feeding that samples a new food whether or not the food was eaten
feed_single_resampling(s, wrapped_next) ==
    LET s1 == IF wrapped_next = s.food THEN [s EXCEPT !.score = @ + 1]
              ELSE [s EXCEPT !.snake.body = pop_back(@)]
    IN  { IF o.hung THEN Spin(s1)
          ELSE Ret([s1 EXCEPT !.food = o.position], o.draws, <<>>) :
          o \in spawn_food(s1.grid, s1.snake) }

\* a feeding that leaves the score as it is
feed_single_without_score(s, wrapped_next) ==
    IF wrapped_next = s.food
    THEN { IF o.hung THEN Spin(s)
           ELSE Ret([s EXCEPT !.food = o.position], o.draws, <<>>) :
           o \in spawn_food(s.grid, s.snake) }
    ELSE {Ret([s EXCEPT !.snake.body = pop_back(@)], 0, <<>>)}

\* step, lines 63-72: feeding in the single-food build, the head already pushed
feed_single(s, wrapped_next) ==
    IF wrapped_next = s.food
    THEN LET s1 == [s EXCEPT !.score = @ + 1]
         IN  { IF o.hung THEN Spin(s1)
               ELSE Ret([s1 EXCEPT !.food = o.position], o.draws, <<>>) :
               o \in spawn_food(s1.grid, s1.snake) }
    ELSE {Ret([s EXCEPT !.snake.body = pop_back(@)], 0, <<>>)}

\* Vec::remove
remove_at(v, i) == SubSeq(v, 1, i - 1) \o SubSeq(v, i + 1, Len(v))

\* iter().position(): the first index that holds the cell, 0 for none
food_index_of(foods, p) ==
    IF on_foods(foods, p)
    THEN CHOOSE i \in 1..Len(foods) :
            /\ foods[i].position = p
            /\ \A j \in 1..(i - 1) : foods[j].position # p
    ELSE 0

\* an eaten food is replaced while fewer than this many remain
FoodCap == 5

\* a feeding that does not replace the eaten food
feed_multiple_without_respawn(s, wrapped_next) ==
    LET food_index == food_index_of(s.foods, wrapped_next)
    IN  IF food_index # 0
        THEN {Ret([s EXCEPT !.foods = remove_at(@, food_index),
                            !.score = @ + point_value(s.foods[food_index].food_type)],
                  0, <<>>)}
        ELSE {Ret([s EXCEPT !.snake.body = pop_back(@)], 0, <<>>)}

\* step, lines 74-95: feeding in the multiple_foods build
feed_multiple(s, wrapped_next) ==
    LET food_index == food_index_of(s.foods, wrapped_next)
    IN  IF food_index # 0
        THEN LET eaten_food == s.foods[food_index]
                 s1 == [s EXCEPT !.foods = remove_at(@, food_index),
                                 !.score = @ + point_value(eaten_food.food_type)]
             IN  IF Len(s1.foods) < FoodCap
                 THEN { IF o.hung THEN Spin(s1)
                        ELSE Ret([s1 EXCEPT !.foods = Append(@, o.food)],
                                 o.draws, <<>>) :
                        o \in spawn_food_with_type(s1.grid, s1.snake, s1.foods) }
                 ELSE {Ret(s1, 0, <<>>)}
        ELSE {Ret([s EXCEPT !.snake.body = pop_back(@)], 0, <<>>)}

\* a collection where Poison does not shorten the snake
collect_powerup_keeping_tail(s, wrapped_next) ==
    IF is_some(s.powerup) /\ wrapped_next = unwrap(s.powerup).position
    THEN LET powerup == unwrap(s.powerup)
             power_type == powerup.power_type
             duration == initial_duration(powerup)
             s1 == IF power_type = "Poison" THEN s
                   ELSE LET s2 == [s EXCEPT !.active_powerup =
                                                Some(<<power_type, duration>>)]
                        IN  IF power_type = "Slow"
                            THEN [s2 EXCEPT !.slow_skip_counter = 0]
                            ELSE s2
         IN  [s1 EXCEPT !.powerup = None]
    ELSE s

\* a collection where Poison also takes a point off the score
collect_powerup_costing(s, wrapped_next) ==
    IF is_some(s.powerup) /\ wrapped_next = unwrap(s.powerup).position
    THEN LET powerup == unwrap(s.powerup)
             power_type == powerup.power_type
             duration == initial_duration(powerup)
             s1 == IF power_type = "Poison"
                   THEN LET s3 == [s EXCEPT !.score = IF @ > 0 THEN @ - 1 ELSE 0]
                        IN  IF Len(s3.snake.body) > 1
                            THEN [s3 EXCEPT !.snake.body = pop_back(@)]
                            ELSE s3
                   ELSE LET s2 == [s EXCEPT !.active_powerup =
                                                Some(<<power_type, duration>>)]
                        IN  IF power_type = "Slow"
                            THEN [s2 EXCEPT !.slow_skip_counter = 0]
                            ELSE s2
         IN  [s1 EXCEPT !.powerup = None]
    ELSE s

\* step, lines 97-128: power-up collision
\* a collection that leaves the power-up on the grid
collect_powerup_left_on_grid(s, wrapped_next) ==
    IF is_some(s.powerup) /\ wrapped_next = unwrap(s.powerup).position
    THEN LET powerup == unwrap(s.powerup)
             power_type == powerup.power_type
             duration == initial_duration(powerup)
         IN  IF power_type = "Poison"
             THEN IF Len(s.snake.body) > 1
                  THEN [s EXCEPT !.snake.body = pop_back(@)]
                  ELSE s
             ELSE LET s2 == [s EXCEPT !.active_powerup =
                                          Some(<<power_type, duration>>)]
                  IN  IF power_type = "Slow"
                      THEN [s2 EXCEPT !.slow_skip_counter = 0]
                      ELSE s2
    ELSE s

collect_powerup(s, wrapped_next) ==
    IF is_some(s.powerup) /\ wrapped_next = unwrap(s.powerup).position
    THEN LET powerup == unwrap(s.powerup)
             power_type == powerup.power_type
             duration == initial_duration(powerup)
             s1 == IF power_type = "Poison"
                   THEN IF Len(s.snake.body) > 1
                        THEN [s EXCEPT !.snake.body = pop_back(@)]
                        ELSE s
                   ELSE LET s2 == [s EXCEPT !.active_powerup =
                                                Some(<<power_type, duration>>)]
                        IN  IF power_type = "Slow"
                            THEN [s2 EXCEPT !.slow_skip_counter = 0]
                            ELSE s2
         IN  [s1 EXCEPT !.powerup = None]
    ELSE s

is_active(s, power_type) ==
    is_some(s.active_powerup) /\ unwrap(s.active_powerup)[1] = power_type

\* a move that lacks the self-collision check of lines 55-59
move_through_body(f, s) ==
    LET wrapped_next == wrapped_next_of(f, s)
    IN  IF should_end_game(f, s)
        THEN {Ret([s EXCEPT !.run_state = "Over"], 0, <<"wall">>)}
        ELSE LET s1 == [s EXCEPT !.snake.body = push_front(@, wrapped_next)]
                 fed == IF f.multiple_foods THEN feed_multiple(s1, wrapped_next)
                        ELSE feed_single(s1, wrapped_next)
             IN  { IF o.hung THEN o
                   ELSE Ret(IF f.powerups THEN collect_powerup(o.g, wrapped_next)
                            ELSE o.g,
                            o.draws, <<"moved">>) :
                   o \in fed }

\* a move whose self-collision check looks at the cell before wrapping
move_checking_unwrapped(f, s) ==
    LET wrapped_next == wrapped_next_of(f, s)
        next == next_head(Head(s.snake.body), s.snake.dir)
    IN  IF should_end_game(f, s)
        THEN {Ret([s EXCEPT !.run_state = "Over"], 0, <<"wall">>)}
        ELSE IF on_snake(s.snake, next)
        THEN {Ret([s EXCEPT !.run_state = "Over"], 0, <<"self">>)}
        ELSE LET s1 == [s EXCEPT !.snake.body = push_front(@, wrapped_next)]
                 fed == IF f.multiple_foods THEN feed_multiple(s1, wrapped_next)
                        ELSE feed_single(s1, wrapped_next)
             IN  { IF o.hung THEN o
                   ELSE Ret(IF f.powerups THEN collect_powerup(o.g, wrapped_next)
                            ELSE o.g,
                            o.draws, <<"moved">>) :
                   o \in fed }

\* step, lines 30-128: the move of a step that is neither refused nor skipped
move(f, s) ==
    LET wrapped_next == wrapped_next_of(f, s)
    IN  IF should_end_game(f, s)
        THEN {Ret([s EXCEPT !.run_state = "Over"], 0, <<"wall">>)}
        ELSE IF on_snake(s.snake, wrapped_next)
        THEN {Ret([s EXCEPT !.run_state = "Over"], 0, <<"self">>)}
        ELSE LET s1 == [s EXCEPT !.snake.body = push_front(@, wrapped_next)]
                 fed == IF f.multiple_foods THEN feed_multiple(s1, wrapped_next)
                        ELSE feed_single(s1, wrapped_next)
             IN  { IF o.hung THEN o
                   ELSE Ret(IF f.powerups THEN collect_powerup(o.g, wrapped_next)
                            ELSE o.g,
                            o.draws, <<"moved">>) :
                   o \in fed }

\* a step that lacks the Paused/Over return of lines 12-14
step_in_any_run_state(f, s) ==
    IF f.powerups /\ is_active(s, "Slow")
    THEN LET s1 == [s EXCEPT !.slow_skip_counter = @ + 1]
         IN  IF s1.slow_skip_counter % 2 = 1 THEN {Ret(s1, 0, <<"skipped">>)}
             ELSE move(f, s1)
    ELSE move(f, s)

\* a step that skips when the incremented counter is even
step_skipping_on_even(f, s) ==
    IF s.run_state \in {"Paused", "Over"} THEN {Ret(s, 0, <<"refused">>)}
    ELSE IF f.powerups /\ is_active(s, "Slow")
    THEN LET s1 == [s EXCEPT !.slow_skip_counter = @ + 1]
         IN  IF s1.slow_skip_counter % 2 = 0 THEN {Ret(s1, 0, <<"skipped">>)}
             ELSE move(f, s1)
    ELSE move(f, s)

\* rules.rs step: the outcomes of one call
step(f, s) ==
    IF s.run_state \in {"Paused", "Over"} THEN {Ret(s, 0, <<"refused">>)}
    ELSE IF f.powerups /\ is_active(s, "Slow")
    THEN LET s1 == [s EXCEPT !.slow_skip_counter = @ + 1]
         IN  IF s1.slow_skip_counter % 2 = 1 THEN {Ret(s1, 0, <<"skipped">>)}
             ELSE move(f, s1)
    ELSE move(f, s)

food_cells_of(f, s) ==
    IF f.multiple_foods THEN foods_cells(s.foods) ELSE {s.food}

\* a try_spawn_powerup that spawns whether or not a power-up is on the grid
try_spawn_powerup_replacing(f, s) ==
    { IF is_some(o.powerup)
      THEN Ret([s EXCEPT !.powerup = o.powerup], o.draws, <<>>)
      ELSE Ret(s, o.draws, <<>>) :
      o \in spawn_powerup(s.grid, s.snake, None, food_cells_of(f, s)) }

\* rules.rs try_spawn_powerup
try_spawn_powerup(f, s) ==
    IF is_some(s.powerup) THEN {Ret(s, 0, <<>>)}
    ELSE { IF is_some(o.powerup)
           THEN Ret([s EXCEPT !.powerup = o.powerup], o.draws, <<>>)
           ELSE Ret(s, o.draws, <<>>) :
           o \in spawn_powerup(s.grid, s.snake, s.powerup, food_cells_of(f, s)) }

-----------------------------------------------------------------------------
(* state.rs: construction and lifecycle *)

Snake(body, dir) == [body |-> body, dir |-> dir]

\* the draws explored for the RNG that new and reset are given by value
NewRngValues == {U32(0, 0), U32(0, 1), U32(0, 4), U32(0, 6)}

new_coords == [n \in AxisLengths |-> { coord(v, n) : v \in NewRngValues }]

new_candidates(grid) ==
    { Position(x, y) : x \in new_coords[grid.w], y \in new_coords[grid.h] }

\* state.rs spawn_food: {[hung, position]}
state_spawn_food(grid, snake) ==
    LET free == new_candidates(grid) \ snake_cells(snake)
    IN  IF free = {} /\ spins(grid, snake_cells(snake)) THEN {[hung |-> TRUE]}
        ELSE { [hung |-> FALSE, position |-> p] : p \in free }

\* state.rs determine_food_type
state_determine_food_type == { food_type_of(u32_rem(v, 100)) : v \in NewRngValues }

\* state.rs spawn_food_with_type: {[hung, food]}
state_spawn_food_with_type(grid, snake, existing_foods) ==
    LET blocked == snake_cells(snake) \cup foods_cells(existing_foods)
        free == new_candidates(grid) \ blocked
    IN  IF free = {} /\ spins(grid, blocked) THEN {[hung |-> TRUE]}
        ELSE { [hung |-> FALSE, food |-> Food(p, t)] :
               p \in free, t \in state_determine_food_type }

\* lines 366-369: push n more foods, one spawn_food_with_type each
RECURSIVE spawn_foods_loop(_, _, _, _)
spawn_foods_loop(grid, snake, foods, n) ==
    IF n = 0 THEN {[hung |-> FALSE, foods |-> foods]}
    ELSE LET spawned == state_spawn_food_with_type(grid, snake, foods)
         IN  UNION { IF o.hung THEN {[hung |-> TRUE]}
                     ELSE UNION { spawn_foods_loop(grid, snake, pushed, n - 1) :
                                  pushed \in {Append(foods, o.food)} }
                     : o \in spawned }

\* line 364: 3 + next_u32() % 3
initial_food_counts == { 3 + u32_rem(v, 3) : v \in NewRngValues }

\* state.rs spawn_initial_foods: {[hung, foods]}
spawn_initial_foods(grid, snake) ==
    UNION { spawn_foods_loop(grid, snake, <<>>, n) : n \in initial_food_counts }

\* the fields a build without the feature does not have are left out
wrap_fields(f, wrap_walls) ==
    IF f.wrap_walls THEN [wrap_walls |-> wrap_walls] ELSE <<>>

powerup_fields(f) ==
    IF f.powerups
    THEN [powerup |-> None, active_powerup |-> None, slow_skip_counter |-> 0]
    ELSE <<>>

\* a constructor that puts the snake in the corner, facing Left
new_with_wrap_in_corner(f, grid, wrap_walls) ==
    LET start == Position(0, 0)
        snake == Snake(<<start>>, "Left")
        rest == [grid |-> grid, snake |-> snake, score |-> 0, run_state |-> "Running"]
                    @@ wrap_fields(f, wrap_walls) @@ powerup_fields(f)
    IN  IF f.multiple_foods
        THEN { IF o.hung THEN Spin([foods |-> <<>>] @@ rest)
               ELSE Ret([foods |-> o.foods] @@ rest, 0, <<>>) :
               o \in spawn_initial_foods(grid, snake) }
        ELSE { IF o.hung THEN Spin([food |-> start] @@ rest)
               ELSE Ret([food |-> o.position] @@ rest, 0, <<>>) :
               o \in state_spawn_food(grid, snake) }

\* GameState::new_with_wrap
new_with_wrap(f, grid, wrap_walls) ==
    LET start == Position(grid.w \div 2, grid.h \div 2)
        snake == Snake(<<start>>, "Right")
        rest == [grid |-> grid, snake |-> snake, score |-> 0, run_state |-> "Running"]
                    @@ wrap_fields(f, wrap_walls) @@ powerup_fields(f)
    IN  IF f.multiple_foods
        THEN { IF o.hung THEN Spin([foods |-> <<>>] @@ rest)
               ELSE Ret([foods |-> o.foods] @@ rest, 0, <<>>) :
               o \in spawn_initial_foods(grid, snake) }
        ELSE { IF o.hung THEN Spin([food |-> start] @@ rest)
               ELSE Ret([food |-> o.position] @@ rest, 0, <<>>) :
               o \in state_spawn_food(grid, snake) }

\* GameState::new
new(f, grid) == new_with_wrap(f, grid, FALSE)

\* a pause that also pauses a game that is over
pause_in_any_run_state(s) == [s EXCEPT !.run_state = "Paused"]

pause(s) == IF s.run_state = "Running" THEN [s EXCEPT !.run_state = "Paused"] ELSE s

\* a resume that leaves the game paused
resume_without_effect(s) == s

\* a resume that also restarts a game that is over
resume_in_any_run_state(s) == [s EXCEPT !.run_state = "Running"]

resume(s) == IF s.run_state = "Paused" THEN [s EXCEPT !.run_state = "Running"] ELSE s

is_paused(s) == s.run_state = "Paused"

is_over(s) == s.run_state = "Over"

\* a reset that leaves the power-up fields as they are
reset_keeping_powerups(f, s) ==
    LET start == Position(s.grid.w \div 2, s.grid.h \div 2)
        s1 == [s EXCEPT !.snake = Snake(<<start>>, "Right")]
        finish(s2) == [s2 EXCEPT !.score = 0, !.run_state = "Running"]
    IN  IF f.multiple_foods
        THEN { IF o.hung THEN Spin(s1)
               ELSE Ret(finish([s1 EXCEPT !.foods = o.foods]), 0, <<>>) :
               o \in spawn_initial_foods(s1.grid, s1.snake) }
        ELSE { IF o.hung THEN Spin(s1)
               ELSE Ret(finish([s1 EXCEPT !.food = o.position]), 0, <<>>) :
               o \in state_spawn_food(s1.grid, s1.snake) }

\* GameState::reset
reset(f, s) ==
    LET start == Position(s.grid.w \div 2, s.grid.h \div 2)
        s1 == [s EXCEPT !.snake = Snake(<<start>>, "Right")]
        finish(s2) ==
            LET s3 == [s2 EXCEPT !.score = 0, !.run_state = "Running"]
            IN  IF f.powerups
                THEN [s3 EXCEPT !.powerup = None, !.active_powerup = None,
                                !.slow_skip_counter = 0]
                ELSE s3
    IN  IF f.multiple_foods
        THEN { IF o.hung THEN Spin(s1)
               ELSE Ret(finish([s1 EXCEPT !.foods = o.foods]), 0, <<>>) :
               o \in spawn_initial_foods(s1.grid, s1.snake) }
        ELSE { IF o.hung THEN Spin(s1)
               ELSE Ret(finish([s1 EXCEPT !.food = o.position]), 0, <<>>) :
               o \in state_spawn_food(s1.grid, s1.snake) }

-----------------------------------------------------------------------------
(* systems.rs: the game loop *)

\* systems.rs Loop: its rng and the ticks its Time has counted
Loop(rng, time) == [rng |-> rng, time |-> time]

\* a countdown that takes 2 off the remaining duration
update_powerup_effects_twice(s) ==
    IF is_some(s.active_powerup)
    THEN LET power_type == unwrap(s.active_powerup)[1]
             duration == unwrap(s.active_powerup)[2]
             left == IF duration > 1 THEN duration - 2 ELSE 0
         IN  IF left = 0
             THEN [s EXCEPT !.active_powerup = None, !.slow_skip_counter = 0]
             ELSE [s EXCEPT !.active_powerup = Some(<<power_type, left>>)]
    ELSE s

\* a countdown that leaves the skip counter as it is when the effect ends
update_powerup_effects_keeping_counter(s) ==
    IF is_some(s.active_powerup)
    THEN LET power_type == unwrap(s.active_powerup)[1]
             duration == unwrap(s.active_powerup)[2]
             left == IF duration > 0 THEN duration - 1 ELSE duration
         IN  IF left = 0
             THEN [s EXCEPT !.active_powerup = None]
             ELSE [s EXCEPT !.active_powerup = Some(<<power_type, left>>)]
    ELSE s

update_powerup_effects(s) ==
    IF is_some(s.active_powerup)
    THEN LET power_type == unwrap(s.active_powerup)[1]
             duration == unwrap(s.active_powerup)[2]
             left == IF duration > 0 THEN duration - 1 ELSE duration
         IN  IF left = 0
             THEN [s EXCEPT !.active_powerup = None, !.slow_skip_counter = 0]
             ELSE [s EXCEPT !.active_powerup = Some(<<power_type, left>>)]
    ELSE s

\* Time::tick
tick(s) == {[g |-> s, draws |-> 0, path |-> <<>>, ticks |-> 1, hung |-> FALSE]}

\* an update that calls step once whatever the effect
update_with_one_step(f, s, dir) ==
    LET s1 == [s EXCEPT !.snake.dir = dir]
        spawned == IF f.powerups
                   THEN try_spawn_powerup(f, update_powerup_effects(s1))
                   ELSE {Ret(s1, 0, <<>>)}
        moved_on == UNION {Then(o, step(f, o.g)) : o \in spawned}
    IN  UNION {Then(o, tick(o.g)) : o \in moved_on}

\* an update that ticks only for a running game
update_ticking_when_running(f, s, dir) ==
    LET s1 == [s EXCEPT !.snake.dir = dir]
        stepped(s2) ==
            IF f.powerups /\ is_active(s2, "Fast")
            THEN UNION {Then(o, step(f, o.g)) : o \in step(f, s2)}
            ELSE step(f, s2)
        spawned == IF f.powerups
                   THEN try_spawn_powerup(f, update_powerup_effects(s1))
                   ELSE {Ret(s1, 0, <<>>)}
        moved_on == UNION {Then(o, stepped(o.g)) : o \in spawned}
    IN  IF s.run_state = "Running" THEN UNION {Then(o, tick(o.g)) : o \in moved_on}
        ELSE moved_on

\* Loop::update, with dir the Input's current_dir
update(f, s, dir) ==
    LET s1 == [s EXCEPT !.snake.dir = dir]
        stepped(s2) ==
            IF f.powerups /\ is_active(s2, "Fast")
            THEN UNION {Then(o, step(f, o.g)) : o \in step(f, s2)}
            ELSE step(f, s2)
        spawned == IF f.powerups
                   THEN try_spawn_powerup(f, update_powerup_effects(s1))
                   ELSE {Ret(s1, 0, <<>>)}
        moved_on == UNION {Then(o, stepped(o.g)) : o \in spawned}
    IN  UNION {Then(o, tick(o.g)) : o \in moved_on}

-----------------------------------------------------------------------------
(* input.rs: the input latch *)

EguiInput(current_dir, last_settled_dir) ==
    [current_dir |-> current_dir, last_settled_dir |-> last_settled_dir]

EguiInput_new(initial_dir) == EguiInput(initial_dir, initial_dir)

is_opposite(dir1, dir2) ==
    <<dir1, dir2>> \in { <<"Up", "Down">>, <<"Down", "Up">>,
                         <<"Left", "Right">>, <<"Right", "Left">> }

\* lines 25-43: of the direction keys pressed in this frame the first of Up,
\* Down, Left, Right counts
requested_dir(keys) ==
    IF "Up" \in keys THEN Some("Up")
    ELSE IF "Down" \in keys THEN Some("Down")
    ELSE IF "Left" \in keys THEN Some("Left")
    ELSE IF "Right" \in keys THEN Some("Right")
    ELSE None

\* an update that compares the request with current_dir
EguiInput_update_against_current(input, keys) ==
    LET requested == requested_dir(keys)
    IN  IF is_some(requested)
           /\ ~is_opposite(unwrap(requested), input.current_dir)
        THEN [input EXCEPT !.current_dir = unwrap(requested)]
        ELSE input

\* EguiInput::update
EguiInput_update(input, keys) ==
    LET requested == requested_dir(keys)
    IN  IF is_some(requested)
           /\ ~is_opposite(unwrap(requested), input.last_settled_dir)
        THEN [input EXCEPT !.current_dir = unwrap(requested)]
        ELSE input

\* EguiInput::settle
settle(input) == [input EXCEPT !.last_settled_dir = input.current_dir]

\* Input::current_dir
current_dir(input) == input.current_dir

-----------------------------------------------------------------------------
(* persistence.rs: the high score store *)

HighScore(score, player_name, timestamp) ==
    [score |-> score, player_name |-> player_name, timestamp |-> timestamp]

\* HighScores::default: a map without keys
HighScores_default == <<>>

\* BTreeMap::entry(key).or_insert_with(Vec::new)
or_insert(scores, key) ==
    IF key \in DOMAIN scores THEN scores ELSE (key :> <<>>) @@ scores

\* the place of e in a list sorted from the highest score down: behind the
\* entries whose score is not lower
insert_by_score(sorted, e) ==
    LET ahead == Cardinality({ i \in 1..Len(sorted) : sorted[i].score >= e.score })
    IN  SubSeq(sorted, 1, ahead) \o <<e>> \o SubSeq(sorted, ahead + 1, Len(sorted))

\* entry.sort_by(|a, b| b.score.cmp(&a.score)): a stable sort, entries of
\* equal score keep their order
RECURSIVE sort_by_score(_)
sort_by_score(entry) ==
    IF entry = <<>> THEN <<>>
    ELSE insert_by_score(sort_by_score(SubSeq(entry, 1, Len(entry) - 1)),
                         entry[Len(entry)])

\* Vec::truncate
truncate(entry, len) == IF Len(entry) > len THEN SubSeq(entry, 1, len) ELSE entry

\* the length add_score truncates a list to
TopScores == 10

\* an add_score that truncates the list before it sorts it
add_score_truncating_first(scores, grid_key, score) ==
    LET inserted == or_insert(scores, grid_key)
    IN  [inserted EXCEPT ![grid_key] = sort_by_score(truncate(Append(@, score), TopScores))]

\* HighScoreStore::add_score, on the map of the store
add_score(scores, grid_key, score) ==
    LET inserted == or_insert(scores, grid_key)
    IN  [inserted EXCEPT ![grid_key] = truncate(sort_by_score(Append(@, score)), TopScores)]

\* HighScoreStore::get_scores
get_scores(scores, grid_key) ==
    IF grid_key \in DOMAIN scores THEN scores[grid_key] ELSE <<>>

-----------------------------------------------------------------------------
(* settings.rs: validated settings *)

Settings(grid, speed) == [grid |-> grid, speed |-> speed]

InvalidGridWidth(w) == [kind |-> "InvalidGridWidth", value |-> w]

InvalidGridHeight(h) == [kind |-> "InvalidGridHeight", value |-> h]

InvalidSpeed(speed) == [kind |-> "InvalidSpeed", value |-> speed]

\* Result<T, SettingsError>
Ok(v) == [ok |-> TRUE, value |-> v]

Err(e) == [ok |-> FALSE, error |-> e]

Settings_default == Settings(GridSize(10, 10), 10)

MaxSpeed == 60

\* validate with no upper limit on the speed
validate_any_speed(self) ==
    IF self.grid.w <= 0 THEN Err(InvalidGridWidth(self.grid.w))
    ELSE IF self.grid.h <= 0 THEN Err(InvalidGridHeight(self.grid.h))
    ELSE IF self.speed = 0 THEN Err(InvalidSpeed(self.speed))
    ELSE Ok(None)

validate(self) ==
    IF self.grid.w <= 0 THEN Err(InvalidGridWidth(self.grid.w))
    ELSE IF self.grid.h <= 0 THEN Err(InvalidGridHeight(self.grid.h))
    ELSE IF self.speed = 0 \/ self.speed > MaxSpeed THEN Err(InvalidSpeed(self.speed))
    ELSE Ok(None)

\* `validate()?` and then Ok(value)
validated(candidate, value) ==
    LET checked == validate(candidate)
    IN  IF checked.ok THEN Ok(value) ELSE checked

Settings_new(grid, speed) ==
    LET candidate == Settings(grid, speed)
    IN  validated(candidate, candidate)

with_grid(self, grid) ==
    LET changed == [self EXCEPT !.grid = grid]
    IN  validated(changed, changed)

with_speed(self, speed) ==
    LET changed == [self EXCEPT !.speed = speed]
    IN  validated(changed, changed)

SettingsStore(settings) == [settings |-> settings]

SettingsStore_new(settings) == validated(settings, SettingsStore(settings))

SettingsStore_default == SettingsStore(Settings_default)

SettingsStore_get(self) == self.settings

\* SettingsStore::update: the store it leaves and the Result it returns
SettingsStore_update(self, new_settings) ==
    LET checked == validate(new_settings)
    IN  IF checked.ok THEN [store |-> SettingsStore(new_settings), result |-> Ok(None)]
        ELSE [store |-> self, result |-> checked]

-----------------------------------------------------------------------------
(* The same code with a Seeded for its RngLike: every draw is the value    *)
(* next_u32 returns, and the operations leave the Seeded in the state the  *)
(* draws left it in.  `cut` marks a sampling loop that was not followed to *)
(* its end.                                                                *)

\* iterations of a sampling loop that are followed
MaxSamples == 40

Out(s, rng) == [g |-> s, rng |-> rng, hung |-> FALSE, cut |-> FALSE]

\* the operation did not return: the sampling o spins, or was cut
Stuck(s, o) == [g |-> s, rng |-> o.rng, hung |-> o.hung, cut |-> o.cut]

\* lines 169-171: two draws, x first
candidate_seeded(grid, rng) ==
    UNION { { [rng |-> b.rng,
               p |-> Position(coord(a.value, grid.w), coord(b.value, grid.h))] :
              b \in {next_u32(a.rng)} } :
            a \in {next_u32(rng)} }

\* the loop of spawn_food and spawn_food_with_type; a Seeded that a rejected
\* iteration leaves in the state it was in spins for ever
RECURSIVE sample_seeded(_, _, _, _)
sample_seeded(grid, blocked, rng, n) ==
    UNION { IF c.p \notin blocked
            THEN {[hung |-> FALSE, cut |-> FALSE, rng |-> c.rng, position |-> c.p]}
            ELSE IF c.rng = rng THEN {[hung |-> TRUE, cut |-> FALSE, rng |-> rng]}
            ELSE IF n >= MaxSamples
            THEN {[hung |-> FALSE, cut |-> TRUE, rng |-> c.rng]}
            ELSE sample_seeded(grid, blocked, c.rng, n + 1) :
            c \in candidate_seeded(grid, rng) }

spawn_food_seeded(grid, snake, rng) ==
    sample_seeded(grid, snake_cells(snake), rng, 1)

determine_food_type_seeded(rng) ==
    { [rng |-> a.rng, food_type |-> food_type_of(u32_rem(a.value, 100))] :
      a \in {next_u32(rng)} }

spawn_food_with_type_seeded(grid, snake, rng, existing_foods) ==
    UNION { { IF o.hung \/ o.cut THEN o
              ELSE [hung |-> FALSE, cut |-> FALSE, rng |-> o.rng,
                    food |-> Food(o.position, t.food_type)] :
              o \in sample_seeded(grid,
                                  snake_cells(snake) \cup foods_cells(existing_foods),
                                  t.rng, 1) } :
            t \in determine_food_type_seeded(rng) }

determine_powerup_type_seeded(rng) ==
    { [rng |-> a.rng, power_type |-> powerup_type_of(u32_rem(a.value, 100))] :
      a \in {next_u32(rng)} }

\* the loop of spawn_powerup, lines 244-289, for up to n attempts: the first
\* half of them and, when they all failed, the other half
RECURSIVE spawn_powerup_loop(_, _, _, _, _)
spawn_powerup_loop(grid, blocked, power_type, rng, n) ==
    IF n = 1
    THEN { IF c.p \in blocked THEN [powerup |-> None, rng |-> c.rng]
           ELSE [powerup |-> Some(PowerUp(c.p, power_type,
                                          spawn_duration(power_type))),
                 rng |-> c.rng] :
           c \in candidate_seeded(grid, rng) }
    ELSE UNION { IF is_some(o.powerup) THEN {o}
                 ELSE spawn_powerup_loop(grid, blocked, power_type, o.rng,
                                         n - (n \div 2)) :
                 o \in spawn_powerup_loop(grid, blocked, power_type, rng, n \div 2) }

spawn_powerup_seeded(grid, snake, rng, existing_powerup, food_cells) ==
    IF is_some(existing_powerup) THEN {[powerup |-> None, rng |-> rng]}
    ELSE UNION { IF u32_rem(roll.value, 100) >= SpawnChance
                 THEN {[powerup |-> None, rng |-> roll.rng]}
                 ELSE UNION { spawn_powerup_loop(grid,
                                                 snake_cells(snake) \cup food_cells,
                                                 t.power_type, t.rng,
                                                 AttemptCap + 1) :
                              t \in determine_powerup_type_seeded(roll.rng) } :
                 roll \in {next_u32(rng)} }

try_spawn_powerup_seeded(f, s, rng) ==
    IF is_some(s.powerup) THEN {Out(s, rng)}
    ELSE { IF is_some(o.powerup) THEN Out([s EXCEPT !.powerup = o.powerup], o.rng)
           ELSE Out(s, o.rng) :
           o \in spawn_powerup_seeded(s.grid, s.snake, rng, s.powerup,
                                      food_cells_of(f, s)) }

feed_single_seeded(s, wrapped_next, rng) ==
    IF wrapped_next = s.food
    THEN LET s1 == [s EXCEPT !.score = @ + 1]
         IN  { IF o.hung \/ o.cut THEN Stuck(s1, o)
               ELSE Out([s1 EXCEPT !.food = o.position], o.rng) :
               o \in spawn_food_seeded(s1.grid, s1.snake, rng) }
    ELSE {Out([s EXCEPT !.snake.body = pop_back(@)], rng)}

feed_multiple_seeded(s, wrapped_next, rng) ==
    LET food_index == food_index_of(s.foods, wrapped_next)
    IN  IF food_index # 0
        THEN LET eaten_food == s.foods[food_index]
                 s1 == [s EXCEPT !.foods = remove_at(@, food_index),
                                 !.score = @ + point_value(eaten_food.food_type)]
             IN  IF Len(s1.foods) < FoodCap
                 THEN { IF o.hung \/ o.cut THEN Stuck(s1, o)
                        ELSE Out([s1 EXCEPT !.foods = Append(@, o.food)], o.rng) :
                        o \in spawn_food_with_type_seeded(s1.grid, s1.snake, rng,
                                                          s1.foods) }
                 ELSE {Out(s1, rng)}
        ELSE {Out([s EXCEPT !.snake.body = pop_back(@)], rng)}

move_seeded(f, s, rng) ==
    LET wrapped_next == wrapped_next_of(f, s)
    IN  IF should_end_game(f, s) \/ on_snake(s.snake, wrapped_next)
        THEN {Out([s EXCEPT !.run_state = "Over"], rng)}
        ELSE LET s1 == [s EXCEPT !.snake.body = push_front(@, wrapped_next)]
                 fed == IF f.multiple_foods
                        THEN feed_multiple_seeded(s1, wrapped_next, rng)
                        ELSE feed_single_seeded(s1, wrapped_next, rng)
             IN  { IF o.hung \/ o.cut \/ ~f.powerups THEN o
                   ELSE Out(collect_powerup(o.g, wrapped_next), o.rng) :
                   o \in fed }

step_seeded(f, s, rng) ==
    IF s.run_state \in {"Paused", "Over"} THEN {Out(s, rng)}
    ELSE IF f.powerups /\ is_active(s, "Slow")
    THEN LET s1 == [s EXCEPT !.slow_skip_counter = @ + 1]
         IN  IF s1.slow_skip_counter % 2 = 1 THEN {Out(s1, rng)}
             ELSE move_seeded(f, s1, rng)
    ELSE move_seeded(f, s, rng)

\* the statements that follow outcome o, when it returned
after_seeded(o, rs) == IF o.hung \/ o.cut THEN {o} ELSE rs

\* Loop::update on a Loop whose rng is a Seeded: {[g, loop, hung, cut]}
update_seeded(f, s, dir, lp) ==
    LET s1 == [s EXCEPT !.snake.dir = dir]
        spawned == IF f.powerups
                   THEN try_spawn_powerup_seeded(f, update_powerup_effects(s1), lp.rng)
                   ELSE {Out(s1, lp.rng)}
        twice(o) == UNION { after_seeded(o1, step_seeded(f, o1.g, o1.rng)) :
                            o1 \in step_seeded(f, o.g, o.rng) }
        stepped == UNION { IF f.powerups /\ is_active(o.g, "Fast") THEN twice(o)
                           ELSE step_seeded(f, o.g, o.rng) :
                           o \in spawned }
    IN  { [g |-> o.g, hung |-> o.hung, cut |-> o.cut,
           loop |-> IF o.hung \/ o.cut THEN Loop(o.rng, lp.time)
                    ELSE Loop(o.rng, lp.time + 1)] :
          o \in stepped }

\* state.rs spawn_initial_foods, lines 366-369: n more foods
RECURSIVE spawn_foods_loop_seeded(_, _, _, _, _)
spawn_foods_loop_seeded(grid, snake, foods, rng, n) ==
    IF n = 0 THEN {[hung |-> FALSE, cut |-> FALSE, rng |-> rng, foods |-> foods]}
    ELSE UNION { IF o.hung \/ o.cut THEN {o}
                 ELSE spawn_foods_loop_seeded(grid, snake, Append(foods, o.food),
                                              o.rng, n - 1) :
                 o \in spawn_food_with_type_seeded(grid, snake, rng, foods) }

spawn_initial_foods_seeded(grid, snake, rng) ==
    UNION { spawn_foods_loop_seeded(grid, snake, <<>>, a.rng, 3 + u32_rem(a.value, 3)) :
            a \in {next_u32(rng)} }

\* GameState::new_with_wrap, given a Seeded by value
new_with_wrap_seeded(f, grid, wrap_walls, rng) ==
    LET start == Position(grid.w \div 2, grid.h \div 2)
        snake == Snake(<<start>>, "Right")
        rest == [grid |-> grid, snake |-> snake, score |-> 0, run_state |-> "Running"]
                    @@ wrap_fields(f, wrap_walls) @@ powerup_fields(f)
    IN  IF f.multiple_foods
        THEN { IF o.hung \/ o.cut THEN Stuck([foods |-> <<>>] @@ rest, o)
               ELSE Out([foods |-> o.foods] @@ rest, o.rng) :
               o \in spawn_initial_foods_seeded(grid, snake, rng) }
        ELSE { IF o.hung \/ o.cut THEN Stuck([food |-> start] @@ rest, o)
               ELSE Out([food |-> o.position] @@ rest, o.rng) :
               o \in spawn_food_seeded(grid, snake, rng) }

\* a reset that keeps the score of the game it ends
reset_seeded_keeping_score(f, s, rng) ==
    LET start == Position(s.grid.w \div 2, s.grid.h \div 2)
        s1 == [s EXCEPT !.snake = Snake(<<start>>, "Right")]
        finish(s2) ==
            LET s3 == [s2 EXCEPT !.run_state = "Running"]
            IN  IF f.powerups
                THEN [s3 EXCEPT !.powerup = None, !.active_powerup = None,
                                !.slow_skip_counter = 0]
                ELSE s3
    IN  IF f.multiple_foods
        THEN { IF o.hung \/ o.cut THEN Stuck(s1, o)
               ELSE Out(finish([s1 EXCEPT !.foods = o.foods]), o.rng) :
               o \in spawn_initial_foods_seeded(s1.grid, s1.snake, rng) }
        ELSE { IF o.hung \/ o.cut THEN Stuck(s1, o)
               ELSE Out(finish([s1 EXCEPT !.food = o.position]), o.rng) :
               o \in spawn_food_seeded(s1.grid, s1.snake, rng) }

\* GameState::reset, given a Seeded by value
reset_seeded(f, s, rng) ==
    LET start == Position(s.grid.w \div 2, s.grid.h \div 2)
        s1 == [s EXCEPT !.snake = Snake(<<start>>, "Right")]
        finish(s2) ==
            LET s3 == [s2 EXCEPT !.score = 0, !.run_state = "Running"]
            IN  IF f.powerups
                THEN [s3 EXCEPT !.powerup = None, !.active_powerup = None,
                                !.slow_skip_counter = 0]
                ELSE s3
    IN  IF f.multiple_foods
        THEN { IF o.hung \/ o.cut THEN Stuck(s1, o)
               ELSE Out(finish([s1 EXCEPT !.foods = o.foods]), o.rng) :
               o \in spawn_initial_foods_seeded(s1.grid, s1.snake, rng) }
        ELSE { IF o.hung \/ o.cut THEN Stuck(s1, o)
               ELSE Out(finish([s1 EXCEPT !.food = o.position]), o.rng) :
               o \in spawn_food_seeded(s1.grid, s1.snake, rng) }

-----------------------------------------------------------------------------
(* The builds and grids explored *)

Features(wrap_walls, multiple_foods, powerups) ==
    [wrap_walls |-> wrap_walls, multiple_foods |-> multiple_foods,
     powerups |-> powerups]

Builds ==
    { Features(FALSE, FALSE, FALSE), Features(TRUE, FALSE, FALSE),
      Features(TRUE, TRUE, FALSE), Features(TRUE, FALSE, TRUE),
      Features(FALSE, TRUE, TRUE) }

Grids(f) ==
    IF f.multiple_foods
    THEN IF f.powerups THEN {GridSize(6, 1)} ELSE {GridSize(7, 1)}
    ELSE IF f.powerups THEN {GridSize(4, 1)} ELSE {GridSize(2, 2), GridSize(3, 1)}

\* the wrap_walls flags a game is built with
Wraps(f) == IF f.wrap_walls THEN BOOLEAN ELSE {FALSE}

-----------------------------------------------------------------------------
(* The state machine *)

Init ==
    /\ features \in Builds
    /\ \E grid \in Grids(features) :
       \E wrap_walls \in Wraps(features) :
       \E o \in new_with_wrap(features, grid, wrap_walls) :
          /\ g = o.g
          /\ hung = o.hung
    /\ loop = None
    /\ twin = None
    /\ app = None
    /\ store = None
    /\ conf = None

\* the operation left outcome o
Called(o) ==
    /\ g' = o.g
    /\ hung' = o.hung
    /\ UNCHANGED <<features, loop, twin, app, store, conf>>

\* the ticks of the active effect that have elapsed
elapsed(s) ==
    IF is_some(s.active_powerup)
    THEN spawn_duration(unwrap(s.active_powerup)[1]) - unwrap(s.active_powerup)[2]
    ELSE 0

\* the part of a game that is explored
Explored ==
    /\ ~hung
    /\ g.score < MaxScore
    /\ features.powerups => elapsed(g) < MaxElapsed

\* the caller sets snake.dir before it calls step
with_dir(s, dir) == [s EXCEPT !.snake.dir = dir]

\* rules::step called directly
Step ==
    /\ Explored
    /\ features.powerups => g.slow_skip_counter < MaxSlowSkip
    /\ \E dir \in Direction : \E o \in step(features, with_dir(g, dir)) : Called(o)

Update ==
    /\ Explored
    /\ \E dir \in Direction : \E o \in update(features, g, dir) : Called(o)

TrySpawnPowerup ==
    /\ Explored
    /\ features.powerups
    /\ \E o \in try_spawn_powerup(features, g) : Called(o)

Pause ==
    /\ ~hung
    /\ Called(Ret(pause(g), 0, <<>>))

Resume ==
    /\ ~hung
    /\ Called(Ret(resume(g), 0, <<>>))

Reset ==
    /\ ~hung
    /\ \E o \in reset(features, g) : Called(o)

\* a game of the single-food build with power-ups
InitPowerups == Init /\ features = Features(TRUE, FALSE, TRUE)

\* Loop::update, called for as long as effects last
Play ==
    /\ ~hung
    /\ g.score < MaxScore
    /\ \E dir \in Direction : \E o \in update(features, g, dir) : Called(o)

\* games driven by Loop::update alone, effects running to their end
Played == InitPowerups /\ [][Play]_vars

\* a game under every operation is explored until its score reaches this
MaxLastingScore == 1

\* Loop::update, called for as long as effects last
LastingUpdate ==
    /\ ~hung
    /\ g.score < MaxLastingScore
    /\ \E dir \in Direction : \E o \in update(features, g, dir) : Called(o)

\* rules::step called directly
LastingStep ==
    /\ ~hung
    /\ g.score < MaxLastingScore
    /\ g.slow_skip_counter < MaxSlowSkip
    /\ \E dir \in Direction : \E o \in step(features, with_dir(g, dir)) : Called(o)

\* games of that build under every operation, effects running to their end
Lasting == InitPowerups /\ [][LastingUpdate \/ LastingStep \/ Pause \/ Resume \/ Reset]_vars

\* the seeds explored run from 0 to this; 100 and 2^64 - 1 are added
MaxSeed == 42

Seeds ==
    { u64(n) : n \in 0..MaxSeed }
        \cup { u64(100), u64_bytes(255, 255, 255, 255, 255, 255, 255, 255) }

\* a Seeded is explored until it has made this many draws
MaxDraws == 3

RECURSIVE after_draws(_, _)
after_draws(rng, n) == IF n = 0 THEN rng ELSE after_draws(next_u32(rng).rng, n - 1)

\* the states of a Seeded that has made fewer than MaxDraws draws
Drawable == { after_draws(Seeded_new(seed), n) : seed \in Seeds, n \in 0..(MaxDraws - 1) }

\* two Seeded of one seed, the second made by new or by clone
InitDrawn ==
    /\ features = Features(FALSE, FALSE, FALSE)
    /\ g = None
    /\ hung = FALSE
    /\ app = None
    /\ store = None
    /\ \E seed \in Seeds :
          /\ loop = Loop(Seeded_new(seed), 0)
          /\ twin \in { [g |-> None, loop |-> Loop(Seeded_new(seed), 0)],
                        [g |-> None, loop |-> Loop(clone(loop.rng), 0)] }
    /\ conf = None

\* next_u32 called on both
Draw ==
    /\ loop.rng \in Drawable
    /\ loop' = [loop EXCEPT !.rng = next_u32(@).rng]
    /\ twin' = [twin EXCEPT !.loop.rng = next_u32(@).rng]
    /\ UNCHANGED <<features, g, hung, app, store, conf>>

\* the draws of two Seeded of one seed
Drawn == InitDrawn /\ [][Draw]_vars

\* the seeds of the games played by twins
TwinSeeds == { u64(1), u64(42), u64(100) }

\* twins are played until their Time has counted this many ticks
MaxTicks == 3

\* two games and two Loops made alike: the same build, grid and wrap flag,
\* the GameStates from Seeded of one seed, the Loops' RNGs of one seed
InitTwin ==
    /\ features \in Builds
    /\ app = None
    /\ store = None
    /\ \E grid \in Grids(features) :
       \E wrap_walls \in Wraps(features) :
       \E game_seed \in TwinSeeds :
       \E loop_seed \in TwinSeeds :
          \E a \in new_with_wrap_seeded(features, grid, wrap_walls,
                                        Seeded_new(game_seed)) :
          \E b \in new_with_wrap_seeded(features, grid, wrap_walls,
                                        Seeded_new(game_seed)) :
              /\ ~a.cut
              /\ g = a.g
              /\ hung = a.hung
              /\ loop = Loop(Seeded_new(loop_seed), 0)
              /\ twin = [g |-> b.g, hung |-> b.hung,
                         loop |-> Loop(clone(Seeded_new(loop_seed)), 0)]
    /\ conf = None

\* both Loops update their game, their Inputs giving the same direction
TwinUpdate ==
    /\ ~hung
    /\ loop.time < MaxTicks
    /\ \E dir \in Direction :
       \E a \in update_seeded(features, g, dir, loop) :
       \E b \in update_seeded(features, twin.g, dir, twin.loop) :
          /\ ~a.cut
          /\ g' = a.g
          /\ hung' = a.hung
          /\ loop' = a.loop
          /\ twin' = [g |-> b.g, hung |-> b.hung, loop |-> b.loop]
    /\ UNCHANGED <<features, app, store, conf>>

\* twin games under the same inputs
Twins == InitTwin /\ [][TwinUpdate]_vars

-----------------------------------------------------------------------------
(* main.rs: the application around the game *)

\* the fields of SnakeApp next to game_state: its input, the input of its
\* loop_system, and the directions of the last two steps that moved the snake
\* since the game was made or reset (None for a step not made yet)
SnakeApp(input, loop_input, moved, before) ==
    [input |-> input, loop_input |-> loop_input, moved |-> moved, before |-> before]

\* a game under the application is explored until an effect has lasted this
\* many ticks
MaxAppElapsed == 2

AppBuilds == { Features(FALSE, FALSE, FALSE), Features(TRUE, FALSE, TRUE) }

AppGrids == { GridSize(2, 2) }

\* SnakeApp::default
InitApp ==
    /\ features \in AppBuilds
    /\ loop = None
    /\ twin = None
    /\ store = None
    /\ \E grid \in AppGrids : \E o \in new(features, grid) :
          /\ g = o.g
          /\ hung = o.hung
          /\ app = SnakeApp(EguiInput_new(o.g.snake.dir), EguiInput_new(o.g.snake.dir),
                            None, None)
    /\ conf = None

\* the moves recorded after an update whose steps returned by path
moves_after(a, path, dir) ==
    LET n == Cardinality({ i \in 1..Len(path) : path[i] = "moved" })
    IN  IF n = 0 THEN a
        ELSE IF n = 1 THEN [a EXCEPT !.before = a.moved, !.moved = Some(dir)]
        ELSE [a EXCEPT !.before = Some(dir), !.moved = Some(dir)]

\* lines 81-87: Space toggles the pause
toggle_pause(s, space) ==
    IF space THEN (IF is_paused(s) THEN resume(s) ELSE pause(s)) ELSE s

\* lines 90-96: R resets the game and replaces both inputs
reset_game(f, s, a, r) ==
    IF r
    THEN { [o |-> o,
            a |-> SnakeApp(EguiInput_new("Right"), EguiInput_new("Right"), None, None)] :
           o \in reset(f, s) }
    ELSE { [o |-> Ret(s, 0, <<>>), a |-> a] }

\* lines 99-107: the update of the loop, when the interval has elapsed
loop_update(f, s, a, due) ==
    IF ~is_paused(s) /\ ~is_over(s) /\ due
    THEN LET a1 == [a EXCEPT !.loop_input = a.input]
             dir == current_dir(a1.loop_input)
         IN  { [o |-> o,
                a |-> IF o.hung THEN a1
                      ELSE moves_after([a1 EXCEPT !.input = settle(@)], o.path, dir)] :
               o \in update(f, s, dir) }
    ELSE { [o |-> Ret(s, 0, <<>>), a |-> a] }

\* SnakeApp::update: one frame, with the keys pressed in it and whether the
\* update interval has elapsed
Frame ==
    /\ ~hung
    /\ g.score < MaxScore
    /\ features.powerups => elapsed(g) < MaxAppElapsed
    /\ \E input \in { EguiInput_update(app.input, keys) : keys \in SUBSET Direction } :
       \E space \in BOOLEAN :
       \E r \in BOOLEAN :
       \E due \in BOOLEAN :
       \E x \in reset_game(features, toggle_pause(g, space),
                           [app EXCEPT !.input = input], r) :
       \E y \in IF x.o.hung THEN {x} ELSE loop_update(features, x.o.g, x.a, due) :
          /\ g' = y.o.g
          /\ hung' = y.o.hung
          /\ app' = y.a
    /\ UNCHANGED <<features, loop, twin, store, conf>>

\* the game as the application drives it
App == InitApp /\ [][Frame]_vars

-----------------------------------------------------------------------------
(* The high score store under add_score *)

\* one leaderboard receives each of the scores 1..MaxAdded at most once, in
\* any order
MaxAdded == 12

\* the other receives at most this many entries, of equal or different scores,
\* with and without a player name
MaxTied == 2

GridKeys == {"10x10", "20x20"}

AddedScores == 1..MaxAdded

\* the entries add_score is called with, per grid key
Entries(key) ==
    IF key = "10x10" THEN { HighScore(n, None, None) : n \in AddedScores }
    ELSE { HighScore(n, name, None) : n \in {5, 7}, name \in {None, Some("Alice")} }

\* how many entries a key has received
total(counts) ==
    LET RECURSIVE sum(_)
        sum(n) == IF n = 0 THEN 0 ELSE counts[n] + sum(n - 1)
    IN  sum(MaxAdded)

\* HighScoreStore::new on a path that does not exist
InitScores ==
    /\ features = Features(FALSE, FALSE, FALSE)
    /\ g = None
    /\ hung = FALSE
    /\ loop = None
    /\ twin = None
    /\ app = None
    /\ store = [scores |-> HighScores_default,
                added |-> [key \in GridKeys |-> [n \in AddedScores |-> 0]]]
    /\ conf = None

AddScore ==
    /\ \E key \in GridKeys : \E score \in Entries(key) :
          /\ IF key = "10x10" THEN store.added[key][score.score] = 0
             ELSE total(store.added[key]) < MaxTied
          /\ store' = [scores |-> add_score(store.scores, key, score),
                       added |-> [store.added EXCEPT ![key][score.score] = @ + 1]]
    /\ UNCHANGED <<features, g, hung, loop, twin, app, conf>>

\* a store that started empty, under add_score
Scores == InitScores /\ [][AddScore]_vars

-----------------------------------------------------------------------------
(* The settings under their constructors and the SettingsStore *)

\* widths and heights given to the constructors
GridLengths == {-1, 0, 1, 2}

\* speeds given to the constructors
Speeds == {0, 1, 60, 61, 1000}

\* every Settings a caller can write down: the fields are public
AnySettings == { Settings(GridSize(w, h), speed) : w \in GridLengths, h \in GridLengths, speed \in Speeds }

\* the settings value a Result carries, or the one in hand when it is an Err
or_keep(result, settings) == IF result.ok THEN result.value ELSE settings

\* SettingsStore::default, with its settings in hand
InitConf ==
    /\ features = Features(FALSE, FALSE, FALSE)
    /\ g = None
    /\ hung = FALSE
    /\ loop = None
    /\ twin = None
    /\ app = None
    /\ store = None
    /\ conf = [store |-> SettingsStore_default,
               settings |-> SettingsStore_get(SettingsStore_default),
               called |-> "default",
               result |-> None]

\* `Settings { grid, speed }`
Literal ==
    /\ \E s \in AnySettings : conf' = [conf EXCEPT !.settings = s, !.called = "literal", !.result = None]
    /\ UNCHANGED <<features, g, hung, loop, twin, app, store>>

SettingsNew ==
    /\ \E s \in AnySettings :
          LET result == Settings_new(s.grid, s.speed)
          IN  conf' = [conf EXCEPT !.settings = or_keep(result, @), !.called = "new",
                                   !.result = Some(result)]
    /\ UNCHANGED <<features, g, hung, loop, twin, app, store>>

WithGrid ==
    /\ \E w \in GridLengths : \E h \in GridLengths :
          LET result == with_grid(conf.settings, GridSize(w, h))
          IN  conf' = [conf EXCEPT !.settings = or_keep(result, @), !.called = "with_grid",
                                   !.result = Some(result)]
    /\ UNCHANGED <<features, g, hung, loop, twin, app, store>>

WithSpeed ==
    /\ \E speed \in Speeds :
          LET result == with_speed(conf.settings, speed)
          IN  conf' = [conf EXCEPT !.settings = or_keep(result, @), !.called = "with_speed",
                                   !.result = Some(result)]
    /\ UNCHANGED <<features, g, hung, loop, twin, app, store>>

StoreNew ==
    /\ LET result == SettingsStore_new(conf.settings)
       IN  conf' = [conf EXCEPT !.store = or_keep(result, @), !.called = "store_new",
                                !.result = Some(result)]
    /\ UNCHANGED <<features, g, hung, loop, twin, app, store>>

StoreGet ==
    /\ conf' = [conf EXCEPT !.settings = SettingsStore_get(conf.store), !.called = "get",
                             !.result = None]
    /\ UNCHANGED <<features, g, hung, loop, twin, app, store>>

StoreUpdate ==
    /\ LET updated_store == SettingsStore_update(conf.store, conf.settings)
       IN  conf' = [conf EXCEPT !.store = updated_store.store, !.called = "update",
                                !.result = Some(updated_store.result)]
    /\ UNCHANGED <<features, g, hung, loop, twin, app, store>>

Configure ==
    Literal \/ SettingsNew \/ WithGrid \/ WithSpeed \/ StoreNew \/ StoreGet \/ StoreUpdate

\* the settings and their store under every operation of settings.rs
Configured == InitConf /\ [][Configure]_vars

Next == Step \/ Update \/ TrySpawnPowerup \/ Pause \/ Resume \/ Reset

Spec == Init /\ [][Next]_vars

-----------------------------------------------------------------------------
(* Vocabulary of the properties *)

\* the displacement of one move: Up y-1, Down y+1, Left x-1, Right x+1
unit(dir) ==
    CASE dir = "Up" -> <<0, -1>>
      [] dir = "Down" -> <<0, 1>>
      [] dir = "Left" -> <<-1, 0>>
      [] dir = "Right" -> <<1, 0>>

plus(p, u) == Position(p.x + u[1], p.y + u[2])

off_grid(p, grid) == p.x < 0 \/ p.y < 0 \/ p.x >= grid.w \/ p.y >= grid.h

\* (x mod w, y mod h) with the Euclidean remainder
modulo_grid(p, grid) == Position(p.x % grid.w, p.y % grid.h)

wrap_enabled(s) == features.wrap_walls /\ s.wrap_walls

\* the cell the head makes for: head + unit(dir), wrapped when it leaves the
\* grid and wrap is enabled
target(s) ==
    LET next == plus(Head(s.snake.body), unit(s.snake.dir))
    IN  IF wrap_enabled(s) /\ off_grid(next, s.grid) THEN modulo_grid(next, s.grid)
        ELSE next

in_body(s, p) == \E i \in 1..Len(s.snake.body) : s.snake.body[i] = p

\* the food or the foods of a state
foods_of(s) == IF features.multiple_foods THEN s.foods ELSE s.food

holds_food(s, p) ==
    IF features.multiple_foods THEN \E i \in 1..Len(s.foods) : s.foods[i].position = p
    ELSE s.food = p

holds_poison(s, p) ==
    /\ features.powerups
    /\ s.powerup # None
    /\ s.powerup[1].position = p
    /\ s.powerup[1].power_type = "Poison"

\* a Slow effect is active and this call is one of those it skips
slow_skips(s) ==
    /\ features.powerups
    /\ s.active_powerup # None
    /\ s.active_powerup[1][1] = "Slow"
    /\ s.slow_skip_counter % 2 = 0

Max(a, b) == IF a >= b THEN a ELSE b

\* t is s after the head entered cell p: the former segments follow in their
\* order and the length is that of s, +1 for a food on p, -1 (never below 1)
\* for a Poison on p
entered(s, t, p) ==
    LET ate == IF holds_food(s, p) THEN 1 ELSE 0
        poison == IF holds_poison(s, p) THEN 1 ELSE 0
        n == Max(1, Len(s.snake.body) + ate - poison)
    IN  /\ Len(t.snake.body) = n
        /\ t.snake.body = SubSeq(<<p>> \o s.snake.body, 1, n)

\* t is s with the game ended: snake body, food(s) and score as they were
ended(s, t) ==
    /\ t.run_state = "Over"
    /\ t.snake.body = s.snake.body
    /\ foods_of(t) = foods_of(s)
    /\ t.score = s.score

\* the states step is called with: the reachable state, snake.dir set
step_inputs == { with_dir(g, dir) : dir \in Direction }

-----------------------------------------------------------------------------
(* Properties *)

\* C1: step on a state whose run_state is Paused or Over changes nothing:
\* snake body and direction, food(s), score, run_state and the power-up
\* fields are as they were, and no draw is made from the RNG.
C1_StepRefused ==
    ~hung /\ g.run_state \in {"Paused", "Over"} =>
        \A s \in step_inputs : \A o \in step(features, s) :
            ~o.hung /\ o.g = s /\ o.draws = 0

\* step is called on a Paused game with a Slow effect active
C1_Witness ==
    /\ ~hung
    /\ g.run_state = "Paused"
    /\ features.powerups
    /\ is_active(g, "Slow")
    /\ \E s \in step_inputs : \E o \in step(features, s) : o.path = <<"refused">>

\* C2 as stated: from a Running state, when head + unit(d) is in bounds and
\* not a body cell, the step puts the head there, the former segments follow
\* in order, and the length changes only by +1 for a food eaten and -1 (never
\* below 1) for a Poison collected.
C2_EveryStepMoves ==
    ~hung /\ g.run_state = "Running" =>
        \A s \in step_inputs :
            LET next == plus(Head(s.snake.body), unit(s.snake.dir))
            IN  ~off_grid(next, s.grid) /\ ~in_body(s, next) =>
                    \A o \in step(features, s) : ~o.hung => entered(s, o.g, next)

\* C2 amended: the same, for a step that an active Slow effect does not skip.
C2_UnskippedStepMoves ==
    ~hung /\ g.run_state = "Running" =>
        \A s \in step_inputs :
            LET next == plus(Head(s.snake.body), unit(s.snake.dir))
            IN  ~off_grid(next, s.grid) /\ ~in_body(s, next) /\ ~slow_skips(s) =>
                    \A o \in step(features, s) : ~o.hung => entered(s, o.g, next)

\* a snake of two or more segments steps onto a Poison and loses a segment
C2_Witness ==
    /\ ~hung
    /\ g.run_state = "Running"
    /\ \E s \in step_inputs :
          LET next == plus(Head(s.snake.body), unit(s.snake.dir))
          IN  /\ ~off_grid(next, s.grid) /\ ~in_body(s, next) /\ ~slow_skips(s)
              /\ holds_poison(s, next) /\ ~holds_food(s, next)
              /\ Len(s.snake.body) >= 2
              /\ \E o \in step(features, s) :
                    ~o.hung /\ Len(o.g.snake.body) = Len(s.snake.body) - 1

\* C3 as stated: with wrap disabled or the wrap feature off, a step from a
\* Running state whose next head cell is out of bounds sets run_state to Over
\* and leaves snake body, food(s) and score unchanged.
C3_EveryStepEndsAtWall ==
    ~hung /\ g.run_state = "Running" /\ ~wrap_enabled(g) =>
        \A s \in step_inputs :
            off_grid(plus(Head(s.snake.body), unit(s.snake.dir)), s.grid) =>
                \A o \in step(features, s) : ~o.hung /\ ended(s, o.g)

\* C3 amended: the same, for a step that an active Slow effect does not skip.
C3_UnskippedStepEndsAtWall ==
    ~hung /\ g.run_state = "Running" /\ ~wrap_enabled(g) =>
        \A s \in step_inputs :
            /\ off_grid(plus(Head(s.snake.body), unit(s.snake.dir)), s.grid)
            /\ ~slow_skips(s)
            => \A o \in step(features, s) : ~o.hung /\ ended(s, o.g)

\* a snake that has eaten runs into a wall, in a build with the wrap feature
\* and the flag off
C3_Witness ==
    /\ ~hung
    /\ g.run_state = "Running"
    /\ features.wrap_walls /\ ~g.wrap_walls
    /\ Len(g.snake.body) >= 2
    /\ \E s \in step_inputs :
          /\ off_grid(plus(Head(s.snake.body), unit(s.snake.dir)), s.grid)
          /\ ~slow_skips(s)
          /\ \E o \in step(features, s) : o.path = <<"wall">>

\* C4 as stated: a head moving off an edge reappears, with wrap enabled, at
\* (x mod w, y mod h) and the game does not end; with wrap disabled the game
\* ends.
C4_EveryStepWraps ==
    ~hung /\ g.run_state = "Running" =>
        \A s \in step_inputs :
            LET next == plus(Head(s.snake.body), unit(s.snake.dir))
            IN  off_grid(next, s.grid) =>
                    \A o \in step(features, s) :
                        ~o.hung =>
                            IF wrap_enabled(s)
                            THEN /\ Head(o.g.snake.body) = modulo_grid(next, s.grid)
                                 /\ o.g.run_state # "Over"
                            ELSE o.g.run_state = "Over"

\* C4 amended: the same, for a step that an active Slow effect does not skip
\* and, with wrap enabled, a wrapped cell that is not a body cell; when the
\* wrapped cell is a body cell the game ends with the snake where it was.
C4_UnskippedStepWraps ==
    ~hung /\ g.run_state = "Running" =>
        \A s \in step_inputs :
            LET next == plus(Head(s.snake.body), unit(s.snake.dir))
                wrapped == modulo_grid(next, s.grid)
            IN  off_grid(next, s.grid) /\ ~slow_skips(s) =>
                    \A o \in step(features, s) :
                        ~o.hung =>
                            IF wrap_enabled(s)
                            THEN IF in_body(s, wrapped) THEN ended(s, o.g)
                                 ELSE /\ Head(o.g.snake.body) = wrapped
                                      /\ o.g.run_state # "Over"
                            ELSE o.g.run_state = "Over"

\* with wrap enabled the head leaves the grid by its left edge and comes
\* back on the right edge
C4_Witness ==
    /\ ~hung
    /\ g.run_state = "Running"
    /\ wrap_enabled(g)
    /\ Head(g.snake.body).x = 0
    /\ \E s \in step_inputs :
          /\ s.snake.dir = "Left"
          /\ ~slow_skips(s)
          /\ \E o \in step(features, s) :
                /\ ~o.hung
                /\ o.g.run_state = "Running"
                /\ Head(o.g.snake.body) = Position(s.grid.w - 1, Head(s.snake.body).y)

\* C5 as stated: a step from a Running state whose next head position is a
\* segment of the body as it is before the move, the tail included, sets
\* run_state to Over and leaves snake body, food(s) and score unchanged.
C5_EveryStepEndsOnBody ==
    ~hung /\ g.run_state = "Running" =>
        \A s \in step_inputs :
            in_body(s, target(s)) =>
                \A o \in step(features, s) : ~o.hung /\ ended(s, o.g)

\* C5 amended: the same, for a step that an active Slow effect does not skip.
C5_UnskippedStepEndsOnBody ==
    ~hung /\ g.run_state = "Running" =>
        \A s \in step_inputs :
            in_body(s, target(s)) /\ ~slow_skips(s) =>
                \A o \in step(features, s) : ~o.hung /\ ended(s, o.g)

\* the head makes for the cell of the last segment of the body
C5_Witness ==
    /\ ~hung
    /\ g.run_state = "Running"
    /\ \E s \in step_inputs :
          /\ target(s) = s.snake.body[Len(s.snake.body)]
          /\ ~slow_skips(s)
          /\ \E o \in step(features, s) : o.path = <<"self">>

\* C6: in every state reached from new, no food is on a cell of the snake
\* body, and in the multiple_foods build the foods are on pairwise distinct
\* cells.
C6_FoodOffSnake ==
    ~hung =>
        IF features.multiple_foods
        THEN /\ \A i \in 1..Len(g.foods) : ~in_body(g, g.foods[i].position)
             /\ \A i, j \in 1..Len(g.foods) :
                   i # j => g.foods[i].position # g.foods[j].position
        ELSE ~in_body(g, g.food)

\* a snake that has grown by eating, in a running game of the multiple_foods
\* build where a food of a type other than Normal has been spawned
C6_Witness ==
    /\ ~hung
    /\ features.multiple_foods
    /\ g.run_state = "Running"
    /\ g.score >= 1
    /\ Len(g.snake.body) >= 2
    /\ \E i \in 1..Len(g.foods) : g.foods[i].food_type # "Normal"

\* t is s after a step that moved the snake
moved(s, t) == t.snake.body # s.snake.body

\* C7: in the single-food build, a step whose new head cell is the food adds
\* exactly 1 to the score, keeps the tail (length +1) and puts the food on a
\* cell that is not on the new body; a step whose new head cell is not the
\* food leaves score and food as they were and pops the tail.
C7_SingleFoodFeeding ==
    ~hung /\ ~features.multiple_foods /\ g.run_state = "Running" =>
        \A s \in step_inputs : \A o \in step(features, s) :
            ~o.hung /\ moved(s, o.g) =>
                LET t == o.g
                    head == Head(t.snake.body)
                IN  IF head = s.food
                    THEN /\ t.score = s.score + 1
                         /\ Len(t.snake.body) = Len(s.snake.body) + 1
                         /\ ~in_body(t, t.food)
                    ELSE /\ t.score = s.score
                         /\ t.food = s.food
                         /\ Len(t.snake.body) <= Len(s.snake.body)

\* C8: in the multiple_foods build, a step whose new head cell holds a food
\* removes exactly that food, adds exactly its point value to the score
\* (Normal 1, Golden 5, Special 10) and does not pop the tail.
C8_MultiFoodFeeding ==
    ~hung /\ features.multiple_foods /\ g.run_state = "Running" =>
        \A s \in step_inputs : \A o \in step(features, s) :
            ~o.hung /\ moved(s, o.g) =>
                LET t == o.g
                    head == Head(t.snake.body)
                IN  \A i \in 1..Len(s.foods) :
                        s.foods[i].position = head =>
                            /\ t.score = s.score +
                                  (CASE s.foods[i].food_type = "Normal" -> 1
                                     [] s.foods[i].food_type = "Golden" -> 5
                                     [] s.foods[i].food_type = "Special" -> 10)
                            /\ \A j \in 1..Len(s.foods) :
                                  j # i => \E k \in 1..Len(t.foods) : t.foods[k] = s.foods[j]
                            /\ Len(t.foods) <= Len(s.foods)
                            /\ Len(t.snake.body) = Len(s.snake.body) + 1

\* C9: in the multiple_foods build, every state reached from new or reset
\* holds at least 3 and at most 5 foods.
C9_FoodCount ==
    ~hung /\ features.multiple_foods => Len(g.foods) >= 3 /\ Len(g.foods) <= 5

\* a game that started with 4 foods still holds 4 after one was eaten
C9_Witness ==
    /\ ~hung
    /\ features.multiple_foods
    /\ g.score >= 1
    /\ Len(g.foods) = 4

\* C10: new(grid, rng) returns a single-segment snake at (w/2, h/2) facing
\* Right, run_state Running, score 0, the grid it was given, no power-up on
\* the grid and no active effect, and no food on the cell of the snake.
C10_New ==
    ~hung =>
        \A o \in new(features, g.grid) :
            ~o.hung =>
                LET t == o.g
                    center == Position(g.grid.w \div 2, g.grid.h \div 2)
                IN  /\ t.snake.body = <<center>>
                    /\ t.snake.dir = "Right"
                    /\ t.run_state = "Running"
                    /\ t.score = 0
                    /\ t.grid = g.grid
                    /\ features.powerups =>
                          /\ t.powerup = None
                          /\ t.active_powerup = None
                          /\ t.slow_skip_counter = 0
                    /\ ~holds_food(t, center)

\* the state is one that new returns, in a build with power-ups and several
\* foods
C10_Witness ==
    /\ ~hung
    /\ features.powerups
    /\ features.multiple_foods
    /\ \E o \in new(features, g.grid) : ~o.hung /\ o.g = g

\* C11: reset, applied to any state, yields score 0, run_state Running, a
\* single-segment snake at the grid center facing Right, food(s) off the
\* snake, the grid and the wrap_walls flag unchanged, and no power-up on the
\* grid, no active effect and slow_skip_counter 0.
C11_Reset ==
    ~hung =>
        \A o \in reset(features, g) :
            ~o.hung =>
                LET t == o.g
                    center == Position(g.grid.w \div 2, g.grid.h \div 2)
                IN  /\ t.score = 0
                    /\ t.run_state = "Running"
                    /\ t.snake.body = <<center>>
                    /\ t.snake.dir = "Right"
                    /\ ~holds_food(t, center)
                    /\ t.grid = g.grid
                    /\ features.wrap_walls => t.wrap_walls = g.wrap_walls
                    /\ features.powerups =>
                          /\ t.powerup = None
                          /\ t.active_powerup = None
                          /\ t.slow_skip_counter = 0

\* reset is applied to a game that is over, with wrap enabled, a snake that
\* has grown, an effect active and its skip counter above 0
C11_Witness ==
    /\ ~hung
    /\ g.run_state = "Over"
    /\ wrap_enabled(g)
    /\ features.powerups
    /\ g.score >= 1
    /\ Len(g.snake.body) >= 2
    /\ g.active_powerup # None
    /\ g.slow_skip_counter >= 1
    /\ \E o \in reset(features, g) : ~o.hung /\ o.g.wrap_walls

\* t is s in every field other than run_state
same_but_run_state(s, t) == [t EXCEPT !.run_state = s.run_state] = s

\* C12: pause changes run_state only from Running to Paused and resume only
\* from Paused to Running; in every other run state they change nothing, and
\* neither changes a field other than run_state.
C12_PauseResume ==
    ~hung =>
        LET p == pause(g)
            r == resume(g)
        IN  /\ same_but_run_state(g, p)
            /\ same_but_run_state(g, r)
            /\ p.run_state = (IF g.run_state = "Running" THEN "Paused"
                              ELSE g.run_state)
            /\ r.run_state = (IF g.run_state = "Paused" THEN "Running"
                              ELSE g.run_state)

\* pause and resume are called on a game that is over and leave it over
C12_Witness ==
    /\ ~hung
    /\ g.run_state = "Over"
    /\ g.score >= 1
    /\ pause(g).run_state = "Over"
    /\ resume(g).run_state = "Over"

\* the states Loop::update can leave, for every direction of the Input
updated(s) == UNION { update(features, s, dir) : dir \in Direction }

\* C13: once run_state is Over, step, Loop::update, pause and resume leave
\* it Over and leave snake body, food(s) and score unchanged; reset returns
\* the state to Running.
C13_OverIsTerminal ==
    ~hung /\ g.run_state = "Over" =>
        /\ \A s \in step_inputs : \A o \in step(features, s) :
              ~o.hung /\ ended(g, o.g)
        /\ \A o \in updated(g) : ~o.hung /\ ended(g, o.g)
        /\ ended(g, pause(g))
        /\ ended(g, resume(g))
        /\ \A o \in reset(features, g) : ~o.hung => o.g.run_state = "Running"

\* Loop::update runs on a game that is over, counts down the active effect
\* and spawns a power-up, and the snake, the food and the score stay
C13_Witness ==
    /\ ~hung
    /\ g.run_state = "Over"
    /\ features.powerups
    /\ g.active_powerup # None
    /\ g.powerup = None
    /\ g.score >= 1
    /\ \E o \in updated(g) :
          /\ ~o.hung
          /\ o.g.powerup # None
          /\ o.g.active_powerup # g.active_powerup
          /\ o.g.run_state = "Over"

\* a Slow effect is active
slowed(s) ==
    /\ features.powerups
    /\ s.active_powerup # None
    /\ s.active_powerup[1][1] = "Slow"

\* cell p holds a power-up of the type
holds_powerup(s, p, power_type) ==
    /\ features.powerups
    /\ s.powerup # None
    /\ s.powerup[1].position = p
    /\ s.powerup[1].power_type = power_type

\* the head of s cannot enter the cell it makes for: a wall or the body
blocked(s) ==
    \/ ~wrap_enabled(s) /\ off_grid(plus(Head(s.snake.body), unit(s.snake.dir)), s.grid)
    \/ in_body(s, target(s))

\* t is s after a normal move: the game ended at a wall or on the body, or
\* the head entered the cell it made for
normal_move(s, t) ==
    IF blocked(s) THEN ended(s, t)
    ELSE t.run_state = "Running" /\ entered(s, t, target(s))

\* t is s with the skip counter at n and nothing else changed
skipped(s, t, n) == t = [s EXCEPT !.slow_skip_counter = n]

\* C16 as stated: while a Slow effect is active, each step on a Running state
\* increments slow_skip_counter; when the incremented counter is odd nothing
\* else changes, and when it is even the step performs a normal move.
C16_EveryStepCounts ==
    ~hung /\ g.run_state = "Running" /\ slowed(g) =>
        \A s \in step_inputs : \A o \in step(features, s) :
            ~o.hung =>
                LET n == s.slow_skip_counter + 1
                IN  /\ o.g.slow_skip_counter = n
                    /\ IF n % 2 = 1 THEN skipped(s, o.g, n)
                       ELSE normal_move(s, o.g)

\* C16 amended: the same, but a move that collects a Slow power-up leaves the
\* counter at 0 instead of the incremented value.
C16_StepCountsUnlessSlowCollected ==
    ~hung /\ g.run_state = "Running" /\ slowed(g) =>
        \A s \in step_inputs : \A o \in step(features, s) :
            ~o.hung =>
                LET n == s.slow_skip_counter + 1
                    collects == /\ n % 2 = 0
                                /\ ~blocked(s)
                                /\ holds_powerup(s, target(s), "Slow")
                IN  /\ o.g.slow_skip_counter = (IF collects THEN 0 ELSE n)
                    /\ IF n % 2 = 1 THEN skipped(s, o.g, n)
                       ELSE normal_move(s, o.g)

\* with a Slow effect active and the counter at 1, a step moves the snake
\* onto a second Slow power-up
C16_Witness ==
    /\ ~hung
    /\ g.run_state = "Running"
    /\ slowed(g)
    /\ g.slow_skip_counter = 1
    /\ \E s \in step_inputs :
          /\ ~blocked(s)
          /\ holds_powerup(s, target(s), "Slow")
          /\ \E o \in step(features, s) :
                /\ ~o.hung
                /\ Head(o.g.snake.body) = target(s)
                /\ o.g.slow_skip_counter = 0

\* the states the same step leaves when no power-up is on the grid: the
\* states after the move, before any collection
after_move(s) ==
    { m.g : m \in { o \in step(features, [s EXCEPT !.powerup = None]) : ~o.hung } }

\* the body without its last segment when it has more than one
shrunk(body) ==
    IF Len(body) > 1 THEN [i \in 1..(Len(body) - 1) |-> body[i]] ELSE body

\* t is m with the Poison collected
poisoned(m, t) ==
    t = [m EXCEPT !.snake.body = shrunk(@), !.powerup = None]

\* C17: when the new head lands on a Poison power-up, the snake loses one
\* more tail segment if and only if its length after the move is greater
\* than 1, active_powerup and slow_skip_counter stay as they are, and the
\* power-up is removed from the grid.
C17_Poison ==
    ~hung /\ g.run_state = "Running" /\ features.powerups =>
        \A s \in step_inputs :
            /\ holds_powerup(s, target(s), "Poison")
            /\ ~blocked(s)
            /\ ~slow_skips(s)
            => \A o \in step(features, s) :
                  ~o.hung =>
                      /\ \E m \in after_move(s) : poisoned(m, o.g)
                      /\ o.g.active_powerup = s.active_powerup
                      /\ Len(o.g.snake.body) >= 1
                      /\ o.g.powerup = None

\* a single-segment snake steps onto a Poison and keeps its segment
C17_Witness ==
    /\ ~hung
    /\ g.run_state = "Running"
    /\ features.powerups
    /\ Len(g.snake.body) = 1
    /\ \E s \in step_inputs :
          /\ holds_powerup(s, target(s), "Poison")
          /\ ~holds_food(s, target(s))
          /\ ~blocked(s)
          /\ \E o \in step(features, s) :
                ~o.hung /\ o.g.snake.body = <<target(s)>> /\ o.g.powerup = None

\* the effect a collected power-up of the type starts
started(power_type) ==
    CASE power_type = "Slow" -> <<<<"Slow", 20>>>>
      [] power_type = "Fast" -> <<<<"Fast", 15>>>>

\* t is m with the power-up of the type collected
activated(m, t, power_type) ==
    t = [m EXCEPT !.active_powerup = started(power_type),
                  !.slow_skip_counter = IF power_type = "Slow" THEN 0 ELSE @,
                  !.powerup = None]

\* C18: when the new head lands on a Slow or Fast power-up, active_powerup
\* becomes (Slow, 20) or (Fast, 15) whatever it was, slow_skip_counter is
\* reset to 0 only for Slow, the length of the snake is not changed by the
\* collection, and the power-up is removed from the grid.
C18_SlowFast ==
    ~hung /\ g.run_state = "Running" /\ features.powerups =>
        \A s \in step_inputs : \A power_type \in {"Slow", "Fast"} :
            /\ holds_powerup(s, target(s), power_type)
            /\ ~blocked(s)
            /\ ~slow_skips(s)
            => \A o \in step(features, s) :
                  ~o.hung =>
                      /\ \E m \in after_move(s) : activated(m, o.g, power_type)
                      /\ o.g.active_powerup = started(power_type)
                      /\ power_type = "Slow" => o.g.slow_skip_counter = 0
                      /\ o.g.powerup = None

\* with a Slow effect active and the counter at 1, the head lands on a Fast
\* power-up: the effect becomes (Fast, 15) and the counter stays at 2
C18_Witness ==
    /\ ~hung
    /\ g.run_state = "Running"
    /\ slowed(g)
    /\ g.slow_skip_counter = 1
    /\ \E s \in step_inputs :
          /\ holds_powerup(s, target(s), "Fast")
          /\ ~blocked(s)
          /\ \E o \in step(features, s) :
                /\ ~o.hung
                /\ o.g.active_powerup = <<<<"Fast", 15>>>>
                /\ o.g.slow_skip_counter = 2

\* the active effect after one countdown: a tick less, none when none is left
counted_down(active) ==
    IF active[1][2] - 1 = 0 THEN <<>>
    ELSE <<<<active[1][1], active[1][2] - 1>>>>

\* t holds an effect started in the update that led from s to t, by the
\* collection of the power-up s held or of one spawned since
started_since(s, t) ==
    /\ t.active_powerup \in {started("Slow"), started("Fast")}
    /\ t.powerup = None
    /\ s.powerup # None => started(s.powerup[1].power_type) = t.active_powerup

\* C19: each Loop::update takes exactly 1 off the remaining duration of the
\* active effect, once, before any step and whether one or two steps run;
\* when the duration reaches 0 active_powerup becomes None and
\* slow_skip_counter 0, and the step of that update runs without the effect,
\* unless a power-up is collected in the update.
C19_Countdown ==
    ~hung /\ features.powerups /\ g.active_powerup # None =>
        \A o \in updated(g) :
            ~o.hung =>
                \/ started_since(g, o.g)
                \/ /\ o.g.active_powerup = counted_down(g.active_powerup)
                   /\ o.g.active_powerup = None =>
                         /\ o.g.slow_skip_counter = 0
                         /\ Len(o.path) = 1
                         /\ o.path[1] # "skipped"

\* the last tick of a Slow effect: the update ends the effect, clears a
\* counter that was above 0, and its one step moves the snake
C19_Witness ==
    /\ ~hung
    /\ g.run_state = "Running"
    /\ g.active_powerup = <<<<"Slow", 1>>>>
    /\ g.slow_skip_counter >= 1
    /\ \E o \in updated(g) :
          /\ ~o.hung
          /\ o.g.active_powerup = None
          /\ o.g.slow_skip_counter = 0
          /\ o.path = <<"moved">>

\* a Fast effect is active and has more than one tick left
fast_after_countdown(s) ==
    /\ features.powerups
    /\ s.active_powerup # None
    /\ s.active_powerup[1][1] = "Fast"
    /\ s.active_powerup[1][2] > 1

\* s after its head entered the cell it made for and the tail followed
advanced(s) ==
    [s EXCEPT !.snake.body =
        [i \in 1..Len(s.snake.body) |-> IF i = 1 THEN target(s)
                                        ELSE s.snake.body[i - 1]]]

\* the head of s can enter the cell it makes for without a collision with a
\* wall or the body and without eating
clear_ahead(s) == ~blocked(s) /\ ~holds_food(s, target(s))

\* no power-up was collected in the update that led from s to outcome o,
\* an update in which no food was eaten: the power-up is still on the grid,
\* or there was none and the spawn roll failed
uncollected(s, o) ==
    \/ o.g.powerup # None
    \/ s.powerup = None /\ o.draws = 1

\* C20: Loop::update calls step exactly twice when a Fast effect is active
\* after the countdown of that update and exactly once otherwise; with Fast
\* active and no collision (wall, body or power-up) or food on the way the
\* head advances two cells and the length is unchanged.
C20_FastStepsTwice ==
    ~hung =>
        \A dir \in Direction : \A o \in update(features, g, dir) :
            ~o.hung =>
                /\ Len(o.path) = (IF fast_after_countdown(g) THEN 2 ELSE 1)
                /\ LET s == with_dir(g, dir)
                   IN  /\ fast_after_countdown(g)
                       /\ g.run_state = "Running"
                       /\ clear_ahead(s)
                       /\ clear_ahead(advanced(s))
                       /\ uncollected(s, o)
                       => /\ Head(o.g.snake.body) = target(advanced(s))
                          /\ o.g.snake.body = advanced(advanced(s)).snake.body
                          /\ Len(o.g.snake.body) = Len(g.snake.body)

\* with a Fast effect active the snake advances two cells in one update
C20_Witness ==
    /\ ~hung
    /\ g.run_state = "Running"
    /\ fast_after_countdown(g)
    /\ \E dir \in Direction : \E o \in update(features, g, dir) :
          LET s == with_dir(g, dir)
          IN  /\ ~o.hung
              /\ clear_ahead(s)
              /\ clear_ahead(advanced(s))
              /\ uncollected(s, o)
              /\ o.path = <<"moved", "moved">>
              /\ Head(o.g.snake.body) = target(advanced(s))

\* the 64 bits of a Seeded, bit 0 the lowest
bits_of(rng) == [i \in 0..63 |-> (rng[(i \div 8) + 1] \div (2 ^ (i % 8))) % 2]

\* x * 2^k mod 2^64 and x div 2^k, bit by bit
times_2_to(x, k) == [i \in 0..63 |-> IF i - k >= 0 THEN x[i - k] ELSE 0]

div_2_to(x, k) == [i \in 0..63 |-> IF i + k > 63 THEN 0 ELSE x[i + k]]

bitwise_xor(x, y) == [i \in 0..63 |-> IF x[i] = y[i] THEN 0 ELSE 1]

\* the hexadecimal digits of 0x2545F4914F6CDD1D, the highest first
MultiplierDigits == <<2, 5, 4, 5, 15, 4, 9, 1, 4, 15, 6, 12, 13, 13, 1, 13>>

\* the j-th hexadecimal digit of x, digit 0 the lowest
hex_digit(x, j) == x[4 * j] + 2 * x[4 * j + 1] + 4 * x[4 * j + 2] + 8 * x[4 * j + 3]

\* long multiplication in base 16: the digit products that fall on digit k
RECURSIVE digit_column(_, _, _)
digit_column(x, k, i) ==
    IF i > k THEN 0
    ELSE hex_digit(x, i) * MultiplierDigits[16 - (k - i)] + digit_column(x, k, i + 1)

\* the digits k..15 of x * 0x2545F4914F6CDD1D, the carry from below given;
\* what would carry out of digit 15 is dropped (mod 2^64)
RECURSIVE product_digits(_, _, _)
product_digits(x, k, carry) ==
    IF k > 15 THEN <<>>
    ELSE LET t == digit_column(x, k, 0) + carry
         IN  <<t % 16>> \o product_digits(x, k + 1, t \div 16)

\* the state after x ^= x >> 12; x ^= x << 25; x ^= x >> 27
scrambled(x) ==
    LET a == bitwise_xor(x, div_2_to(x, 12))
        b == bitwise_xor(a, times_2_to(a, 25))
    IN  bitwise_xor(b, div_2_to(b, 27))

\* the high 32 bits of scrambled(x) * 0x2545F4914F6CDD1D mod 2^64
high_32_bits(x) ==
    LET d == product_digits(scrambled(x), 0, 0)
    IN  [hi |-> d[13] + 16 * d[14] + 256 * d[15] + 4096 * d[16],
         lo |-> d[9] + 16 * d[10] + 256 * d[11] + 4096 * d[12]]

\* C15: two Seeded made with the same seed, or one cloned from the other,
\* return identical next_u32 values at every draw, each the high 32 bits of
\* x * 0x2545F4914F6CDD1D mod 2^64 after x ^= x >> 12, x ^= x << 25 (mod
\* 2^64), x ^= x >> 27.
C15_SeededDraws ==
    LET a == next_u32(loop.rng)
        b == next_u32(twin.loop.rng)
    IN  /\ a.value = b.value
        /\ a.rng = b.rng
        /\ bits_of(a.rng) = scrambled(bits_of(loop.rng))
        /\ a.value = high_32_bits(bits_of(loop.rng))

\* the third draw of two Seeded of seed 42
C15_Witness ==
    /\ bits_of(loop.rng) =
          scrambled(scrambled([i \in 0..63 |-> IF i \in {1, 3, 5} THEN 1 ELSE 0]))
    /\ twin.loop.rng = loop.rng
    /\ next_u32(loop.rng).value = [hi |-> 51782, lo |-> 27616]

reversed(dir1, dir2) ==
    /\ unit(dir1)[1] + unit(dir2)[1] = 0
    /\ unit(dir1)[2] + unit(dir2)[2] = 0

\* C21: under the application's input latch the direction of a step that
\* moves the snake is never the opposite of the direction of the snake's
\* previous move, and a game of a snake of length 2 or more never ends by the
\* snake turning back into its neck.
C21_ReversalRejected ==
    ~hung =>
        /\ app.moved # None /\ app.before # None =>
              ~reversed(app.moved[1], app.before[1])
        /\ g.run_state = "Over" /\ Len(g.snake.body) >= 2 /\ app.moved # None =>
              ~(reversed(g.snake.dir, app.moved[1]) /\ target(g) = g.snake.body[2])

\* C22: on every grid with w > 0 and h > 0, new, reset, step and Loop::update
\* return, in every reachable state of every build, also on grids of few
\* cells and when the snake fills the grid.
C22_Total ==
    /\ ~hung
    /\ \A o \in new(features, g.grid) : ~o.hung
    /\ \A o \in reset(features, g) : ~o.hung
    /\ \A s \in step_inputs : \A o \in step(features, s) : ~o.hung
    /\ \A o \in updated(g) : ~o.hung

abs(n) == IF n < 0 THEN -n ELSE n

Min(a, b) == IF a <= b THEN a ELSE b

\* the Manhattan distance of two cells
manhattan(p, q) == abs(p.x - q.x) + abs(p.y - q.y)

\* the Manhattan distance on the torus of the grid
toroidal(p, q, grid) ==
    Min(abs(p.x - q.x), grid.w - abs(p.x - q.x))
        + Min(abs(p.y - q.y), grid.h - abs(p.y - q.y))

\* C23: in every state reached from new by step, update, pause, resume and
\* reset calls the snake body is non-empty, holds no cell twice, and its
\* consecutive segments are at Manhattan distance 1, measured on the torus
\* when wrap is enabled.
C23_BodyWellFormed ==
    ~hung =>
        LET body == g.snake.body
        IN  /\ Len(body) >= 1
            /\ \A i, j \in 1..Len(body) : i # j => body[i] # body[j]
            /\ \A i \in 1..(Len(body) - 1) :
                  IF wrap_enabled(g) THEN toroidal(body[i], body[i + 1], g.grid) = 1
                  ELSE manhattan(body[i], body[i + 1]) = 1

\* a snake of three segments that has passed through a wall with wrap enabled:
\* two consecutive segments are on opposite edges
C23_Witness ==
    /\ ~hung
    /\ wrap_enabled(g)
    /\ Len(g.snake.body) >= 3
    /\ \E i \in 1..(Len(g.snake.body) - 1) :
          manhattan(g.snake.body[i], g.snake.body[i + 1]) > 1

\* 0 <= x < w and 0 <= y < h
inside(p, grid) == p.x >= 0 /\ p.x < grid.w /\ p.y >= 0 /\ p.y < grid.h

\* C24: in every state reached from new on a grid with w > 0 and h > 0, wrap
\* enabled or not, every snake segment, every food and the power-up on the
\* grid (if any) lies inside the grid.
C24_InsideGrid ==
    ~hung =>
        /\ g.grid.w > 0 /\ g.grid.h > 0
        /\ \A i \in 1..Len(g.snake.body) : inside(g.snake.body[i], g.grid)
        /\ IF features.multiple_foods
           THEN \A i \in 1..Len(g.foods) : inside(g.foods[i].position, g.grid)
           ELSE inside(g.food, g.grid)
        /\ features.powerups /\ g.powerup # None =>
              inside(g.powerup[1].position, g.grid)

\* with wrap enabled the snake has eaten and passed through a wall, and a
\* power-up is on the grid
C24_Witness ==
    /\ ~hung
    /\ wrap_enabled(g)
    /\ features.powerups
    /\ g.powerup # None
    /\ g.score >= 1
    /\ \E i \in 1..(Len(g.snake.body) - 1) :
          abs(g.snake.body[i].x - g.snake.body[i + 1].x) > 1

\* C25: in every reachable state of a build with power-ups the power-up on
\* the grid shares its cell with no food, whether the power-up was spawned
\* after the food or the food after the power-up.
C25_PowerUpOffFood ==
    ~hung /\ features.powerups /\ g.powerup # None =>
        ~holds_food(g, g.powerup[1].position)

\* the head entered cell p in a step of the update that left outcome o from
\* state s: the first step that moved went to the cell ahead of s, the second
\* to the cell ahead of that
entered_during(s, o, p) ==
    \/ Len(o.path) >= 1 /\ o.path[1] = "moved" /\ target(s) = p
    \/ Len(o.path) >= 2 /\ o.path[2] = "moved" /\ target(advanced(s)) = p

\* the power-up of s is still there in t, or it is gone and entered holds
kept_unless(s, t, was_entered) ==
    \/ t.powerup = s.powerup
    \/ t.powerup = None /\ was_entered

\* C26: at most one power-up is on the grid.  While one is there,
\* try_spawn_powerup leaves the state unchanged and draws nothing, and the
\* power-up keeps its cell and type until the head enters its cell or reset
\* is called; when none is there, a power-up is spawned only if the roll
\* (next_u32 mod 100) is below 10.
C26_OnePowerUp ==
    ~hung /\ features.powerups =>
        /\ Len(g.powerup) <= 1
        /\ g.powerup # None =>
              /\ \A o \in try_spawn_powerup(features, g) :
                    ~o.hung /\ o.g = g /\ o.draws = 0
              /\ \A s \in step_inputs : \A o \in step(features, s) :
                    kept_unless(g, o.g, o.path = <<"moved">>
                                          /\ target(s) = g.powerup[1].position)
              /\ \A dir \in Direction : \A o \in update(features, g, dir) :
                    kept_unless(g, o.g,
                                entered_during(with_dir(g, dir), o, g.powerup[1].position))
              /\ pause(g).powerup = g.powerup
              /\ resume(g).powerup = g.powerup
        /\ g.powerup = None =>
              /\ \A o \in spawn_powerup(g.grid, g.snake, g.powerup,
                                        IF features.multiple_foods
                                        THEN { g.foods[i].position : i \in 1..Len(g.foods) }
                                        ELSE {g.food}) :
                    o.powerup # None => o.roll < 10
              /\ \A o \in try_spawn_powerup(features, g) :
                    /\ o.draws = 1 => o.g = g
                    /\ o.g.powerup # None => o.draws >= 4
                    /\ [o.g EXCEPT !.powerup = None] = g

\* a power-up is on the grid next to the head of a running game: a step
\* collects it, try_spawn_powerup does nothing, and after reset a roll of 3
\* spawns one and a roll of 41 does not
C26_Witness ==
    /\ ~hung
    /\ features.powerups
    /\ g.run_state = "Running"
    /\ g.powerup # None
    /\ \E s \in step_inputs : \E o \in step(features, s) :
          /\ ~o.hung
          /\ o.g.powerup = None
          /\ target(s) = g.powerup[1].position
    /\ \A o \in try_spawn_powerup(features, g) : o.g = g
    /\ \E r \in reset(features, g) :
          /\ ~r.hung
          /\ r.g.powerup = None
          /\ \E o \in spawn_powerup(r.g.grid, r.g.snake, None, food_cells_of(features, r.g)) :
                o.powerup # None /\ o.roll = 3
          /\ \E o \in spawn_powerup(r.g.grid, r.g.snake, None, food_cells_of(features, r.g)) :
                o.powerup = None /\ o.roll = 41

\* what one eaten food can add to the score
gains == IF features.multiple_foods THEN {1, 5, 10} ELSE {1}

\* the number of steps of a path that moved the snake
moves_in(path) == Cardinality({ i \in 1..Len(path) : path[i] = "moved" })

\* what the foods eaten in n moves can add to the score
gains_of(n) ==
    IF n = 0 THEN {0}
    ELSE IF n = 1 THEN {0} \cup gains
    ELSE {0} \cup gains \cup { a + b : a \in gains, b \in gains }

\* C27: the score never decreases under step or Loop::update: it grows only
\* when a food is eaten, by 1 in the single-food build and by 1, 5 or 10 in
\* the multiple_foods build for each food; pause, resume and
\* try_spawn_powerup leave it alone and only reset sets it back to 0.
C27_ScoreMonotonic ==
    ~hung =>
        /\ g.score >= 0
        /\ \A s \in step_inputs : \A o \in step(features, s) :
              /\ o.g.score >= s.score
              /\ ~o.hung => o.g.score - s.score \in gains_of(moves_in(o.path))
              /\ o.g.score > s.score =>
                    /\ holds_food(s, target(s))
                    /\ Head(o.g.snake.body) = target(s)
        /\ \A dir \in Direction : \A o \in update(features, g, dir) :
              /\ o.g.score >= g.score
              /\ ~o.hung => o.g.score - g.score \in gains_of(moves_in(o.path))
              /\ o.g.score > g.score /\ ~o.hung => foods_of(o.g) # foods_of(g)
        /\ pause(g).score = g.score
        /\ resume(g).score = g.score
        /\ features.powerups =>
              \A o \in try_spawn_powerup(features, g) : o.g.score = g.score
        /\ \A o \in reset(features, g) : ~o.hung => o.g.score = 0

\* in the multiple_foods build a game with points steps onto a Golden food
\* and gains 5, and a reset takes the score back to 0
C27_Witness ==
    /\ ~hung
    /\ features.multiple_foods
    /\ g.run_state = "Running"
    /\ g.score >= 1
    /\ \E s \in step_inputs : \E o \in step(features, s) :
          ~o.hung /\ o.g.score = g.score + 5
    /\ \E o \in reset(features, g) : ~o.hung /\ o.g.score = 0

\* C28: every Loop::update that returns has called Time::tick exactly once,
\* whatever the run state and whether it ran one step or two, and has set
\* snake.dir to the Input's current direction before stepping: the step moves
\* the head to the cell ahead in that direction.
C28_OneTickPerUpdate ==
    ~hung =>
        \A dir \in Direction : \A o \in update(features, g, dir) :
            ~o.hung =>
                /\ o.ticks = 1
                /\ o.g.snake.dir = dir
                /\ Len(o.path) \in {1, 2}
                /\ o.path = <<"moved">> =>
                      Head(o.g.snake.body) = target([g EXCEPT !.snake.dir = dir])

\* an update of a paused game under a Fast effect: two steps run, both
\* refused, snake.dir is set to a new direction and the Time ticks once
C28_Witness ==
    /\ ~hung
    /\ g.run_state = "Paused"
    /\ fast_after_countdown(g)
    /\ \E dir \in Direction : \E o \in update(features, g, dir) :
          /\ ~o.hung
          /\ dir # g.snake.dir
          /\ o.g.snake.dir = dir
          /\ o.path = <<"refused", "refused">>
          /\ o.ticks = 1

\* a Slow effect is active and has more than one tick left
slow_after_countdown(s) ==
    /\ features.powerups
    /\ s.active_powerup # None
    /\ s.active_powerup[1][1] = "Slow"
    /\ s.active_powerup[1][2] > 1

\* the update of a paused game s left t: snake body, food(s) and score as
\* they were, and the game still paused
stayed_paused(s, t) ==
    /\ t.snake.body = s.snake.body
    /\ foods_of(t) = foods_of(s)
    /\ t.score = s.score
    /\ t.run_state = "Paused"

\* C29 as stated: Loop::update on a Paused state leaves snake body, food(s)
\* and score unchanged and the state Paused; after pause followed by resume
\* the next update moves the head exactly one cell in the input direction
\* (the cell ahead being free and inside the grid).
C29_ResumedUpdateMovesOneCell ==
    ~hung =>
        /\ g.run_state = "Paused" =>
              \A o \in updated(g) : ~o.hung /\ stayed_paused(g, o.g)
        /\ g.run_state = "Running" =>
              \A dir \in Direction :
                 \A o \in update(features, resume(pause(g)), dir) :
                    ~o.hung /\ ~blocked(with_dir(g, dir)) =>
                        Head(o.g.snake.body) = target(with_dir(g, dir))

\* C29, amended: Loop::update on a Paused state leaves snake body, food(s)
\* and score unchanged and the state Paused; after pause followed by resume
\* the next update does what it would have done had the game never been
\* paused, and it moves the head exactly one cell in the input direction when
\* that cell is free and inside the grid, no Fast effect is active and the
\* step is not one a Slow effect skips.
C29_ResumedUpdateAsNeverPaused ==
    ~hung =>
        /\ g.run_state = "Paused" =>
              \A o \in updated(g) : ~o.hung /\ stayed_paused(g, o.g)
        /\ g.run_state = "Running" =>
              \A dir \in Direction :
                 /\ update(features, resume(pause(g)), dir) = update(features, g, dir)
                 /\ \A o \in update(features, resume(pause(g)), dir) :
                       /\ ~o.hung
                       /\ ~blocked(with_dir(g, dir))
                       /\ ~fast_after_countdown(g)
                       /\ ~(slow_after_countdown(g) /\ g.slow_skip_counter % 2 = 0)
                       => Head(o.g.snake.body) = target(with_dir(g, dir))

\* a running game under a Slow effect is paused and resumed, and the next
\* update, with a free cell ahead, is skipped: the head stays where it was
C29_Witness ==
    /\ ~hung
    /\ g.run_state = "Running"
    /\ slow_after_countdown(g)
    /\ g.slow_skip_counter % 2 = 0
    /\ pause(g).run_state = "Paused"
    /\ \E dir \in Direction : \E o \in update(features, resume(pause(g)), dir) :
          /\ ~blocked(with_dir(g, dir))
          /\ ~o.hung
          /\ o.path = <<"skipped">>
          /\ Head(o.g.snake.body) = Head(g.snake.body)

\* the list the store holds for a key, empty when it has none
held(key) == IF key \in DOMAIN store.scores THEN store.scores[key] ELSE <<>>

\* how many entries of the list have the score
holding(list, n) == Cardinality({ i \in 1..Len(list) : list[i].score = n })

\* how many entries were added for the key
added_to(key) ==
    LET RECURSIVE upto(_)
        upto(n) == IF n = 0 THEN 0 ELSE store.added[key][n] + upto(n - 1)
    IN  upto(MaxAdded)

\* the list holds the highest of the scores added for the key: as many as
\* were added up to 10, none that was not added, and no score was left out
\* in favour of a lower one
highest_added(key) ==
    LET list == held(key)
    IN  /\ Len(list) = (IF added_to(key) < 10 THEN added_to(key) ELSE 10)
        /\ \A n \in 1..MaxAdded : holding(list, n) <= store.added[key][n]
        /\ \A n \in 1..MaxAdded :
              holding(list, n) < store.added[key][n] =>
                  \A i \in 1..Len(list) : list[i].score >= n

\* C30: after any sequence of add_score calls on a store that started empty,
\* the list of every grid key is sorted by score from the highest down, holds
\* at most 10 entries and consists of the highest scores added for that key;
\* adding to one key does not change the list of another.
C30_TopTen ==
    /\ \A key \in GridKeys :
          LET list == held(key)
          IN  /\ \A i \in 1..(Len(list) - 1) : list[i].score >= list[i + 1].score
              /\ Len(list) <= 10
              /\ highest_added(key)
    /\ \A key \in GridKeys : \A score \in Entries(key) :
          \A other \in DOMAIN store.scores \ {key} :
              add_score(store.scores, key, score)[other] = store.scores[other]

\* twelve distinct scores were added to one key and the ten highest remain,
\* and the other key holds two entries of one score in the order they came
C30_Witness ==
    /\ added_to("10x10") = 12
    /\ Len(held("10x10")) = 10
    /\ held("10x10")[1].score = 12
    /\ held("10x10")[10].score = 3
    /\ Len(held("20x20")) = 2
    /\ held("20x20")[1].score = held("20x20")[2].score
    /\ held("20x20")[1].player_name # held("20x20")[2].player_name

\* w > 0, h > 0 and 1 <= speed <= 60
valid_settings(s) == s.grid.w > 0 /\ s.grid.h > 0 /\ 1 <= s.speed /\ s.speed <= 60

\* a rejection names the width if it is not positive, else the height if it is
\* not positive, else the speed
rejected_in_order(result, s) ==
    /\ s.grid.w <= 0 => result.error.kind = "InvalidGridWidth" /\ result.error.value = s.grid.w
    /\ s.grid.w > 0 /\ s.grid.h <= 0 =>
          result.error.kind = "InvalidGridHeight" /\ result.error.value = s.grid.h
    /\ s.grid.w > 0 /\ s.grid.h > 0 =>
          result.error.kind = "InvalidSpeed" /\ result.error.value = s.speed

\* a Result that carries the candidate when it is valid and else rejects it
accepts_valid(result, accepted, s) ==
    IF result.ok THEN accepted = s /\ valid_settings(s) ELSE rejected_in_order(result, s)

\* C31: every Settings accepted by Settings::new, with_grid, with_speed,
\* SettingsStore::new or SettingsStore::update has w > 0, h > 0 and
\* 1 <= speed <= 60; a rejection reports the width before the height before
\* the speed; a rejected SettingsStore::update returns the error and leaves the
\* stored settings unchanged; the store always holds valid settings.
C31_AcceptedSettingsValid ==
    conf # None =>
        /\ valid_settings(conf.store.settings)
        /\ \A s \in AnySettings :
              LET made == Settings_new(s.grid, s.speed)
                  regridded == with_grid(conf.settings, s.grid)
                  respeeded == with_speed(conf.settings, s.speed)
                  stored == SettingsStore_new(s)
                  changed == SettingsStore_update(conf.store, s)
              IN  /\ accepts_valid(made, IF made.ok THEN made.value ELSE None, s)
                  /\ accepts_valid(regridded, IF regridded.ok THEN regridded.value ELSE None,
                                   Settings(s.grid, conf.settings.speed))
                  /\ accepts_valid(respeeded, IF respeeded.ok THEN respeeded.value ELSE None,
                                   Settings(conf.settings.grid, s.speed))
                  /\ accepts_valid(stored, IF stored.ok THEN stored.value.settings ELSE None, s)
                  /\ accepts_valid(changed.result, changed.store.settings, s)
                  /\ ~changed.result.ok => changed.store = conf.store
                  /\ valid_settings(changed.store.settings)

\* a store that accepted an update has just rejected one whose width, height
\* and speed are all out of range
C31_Witness ==
    /\ conf # None
    /\ conf.called = "update"
    /\ conf.store.settings # Settings_default
    /\ ~valid_settings(conf.settings)
    /\ conf.settings.grid.w <= 0 /\ conf.settings.grid.h <= 0 /\ conf.settings.speed > 60
    /\ ~unwrap(conf.result).ok
    /\ unwrap(conf.result).error = InvalidGridWidth(conf.settings.grid.w)

\* the ticks the active effect of s has left
remaining(s) == s.active_powerup[1][2]

\* the effect active in s is applied to the steps of the update that left o:
\* under Fast two steps run; under Slow one step runs, and it is skipped
\* exactly when the incremented counter is odd
effect_applied(s, o) ==
    IF s.active_powerup[1][1] = "Fast" THEN Len(o.path) = 2
    ELSE /\ Len(o.path) = 1
         /\ o.path[1] = "skipped" <=> (s.slow_skip_counter + 1) % 2 = 1

\* C32: a collected Slow (Fast) power-up starts with 20 (15) ticks and its
\* effect is applied to the steps of exactly 20 (15) subsequent updates: every
\* update that begins with 1 or more ticks left has the effect applied to its
\* steps, the last of them (which begins with 1 tick left) included, and the
\* effect is gone after that one, unless another power-up is collected.
C32_EffectLastsItsDuration ==
    ~hung /\ features.powerups /\ g.run_state = "Running" /\ g.active_powerup # None =>
        \A o \in updated(g) :
            ~o.hung =>
                /\ remaining(g) <= spawn_duration(g.active_powerup[1][1])
                /\ effect_applied(g, o)
                /\ remaining(g) = 1 /\ ~started_since(g, o.g) => o.g.active_powerup = None

\* the candidate positions drawn by a spawn attempt that made the number of
\* draws: one draw is the roll, one selects the type, two select a position
positions_drawn(draws) == (draws - 2) \div 2

\* C33: a power-up spawn attempt that passed the 10% roll draws at most 100
\* candidate positions; if all are rejected it gives up, leaving no power-up
\* on the grid and the rest of the state unchanged; the call always returns.
C33_SpawnGivesUpAfter100 ==
    ~hung /\ features.powerups /\ g.powerup = None =>
        \A o \in try_spawn_powerup(features, g) :
            /\ ~o.hung
            /\ o.draws >= 2 => positions_drawn(o.draws) <= 100
            /\ o.g = [g EXCEPT !.powerup = o.g.powerup]
            /\ o.g.powerup # None =>
                  /\ ~in_body(g, o.g.powerup[1].position)
                  /\ ~holds_food(g, o.g.powerup[1].position)

\* the head of s leaves the grid in the direction it is given
leaves_grid(s) == off_grid(plus(Head(s.snake.body), unit(s.snake.dir)), s.grid)

\* the cell on the far side that a head leaving the grid comes back in on
wrapped_cell(s) == modulo_grid(plus(Head(s.snake.body), unit(s.snake.dir)), s.grid)

\* C34: with wrap enabled the self-collision, feeding and power-up checks use
\* the wrapped coordinate: a head that moves off an edge onto a wrapped cell
\* occupied by a body segment ends the game, and one that wraps onto a food or
\* power-up cell eats or collects it.
C34_WrappedChecks ==
    ~hung /\ g.run_state = "Running" /\ wrap_enabled(g) =>
        \A s \in step_inputs :
            leaves_grid(s) /\ ~slow_skips(s) =>
                \A o \in step(features, s) :
                    ~o.hung =>
                        IF in_body(s, wrapped_cell(s)) THEN ended(s, o.g)
                        ELSE /\ o.g.run_state = "Running"
                             /\ entered(s, o.g, wrapped_cell(s))
                             /\ holds_food(s, wrapped_cell(s)) =>
                                   /\ o.g.score > s.score
                                   /\ ~holds_food(o.g, wrapped_cell(s))
                             /\ ~holds_food(s, wrapped_cell(s)) =>
                                   /\ o.g.score = s.score
                                   /\ foods_of(o.g) = foods_of(s)
                             /\ features.powerups =>
                                   IF s.powerup # None /\ s.powerup[1].position = wrapped_cell(s)
                                   THEN /\ o.g.powerup = None
                                        /\ s.powerup[1].power_type # "Poison" =>
                                              o.g.active_powerup = started(s.powerup[1].power_type)
                                   ELSE /\ o.g.powerup = s.powerup
                                        /\ o.g.active_powerup = s.active_powerup

\* a head on the edge, with wrap enabled: leaving the grid to the side it comes
\* back in on a power-up and collects it, and leaving it upwards it comes back
\* in on its own cell and the game ends
C34_Witness ==
    /\ ~hung
    /\ g.run_state = "Running"
    /\ wrap_enabled(g)
    /\ features.powerups
    /\ \E s \in step_inputs :
          /\ leaves_grid(s)
          /\ in_body(s, wrapped_cell(s))
          /\ \E o \in step(features, s) : o.g.run_state = "Over"
    /\ \E s \in step_inputs :
          /\ leaves_grid(s)
          /\ wrapped_cell(s) # plus(Head(s.snake.body), unit(s.snake.dir))
          /\ ~in_body(s, wrapped_cell(s))
          /\ s.powerup # None
          /\ s.powerup[1].position = wrapped_cell(s)
          /\ \E o \in step(features, s) :
                /\ ~o.hung
                /\ Head(o.g.snake.body) = wrapped_cell(s)
                /\ o.g.powerup = None

\* the wrap flag of a state; a build without the feature has none, and its
\* new_with_wrap ignores the one it is given
wrap_flag(s) == IF features.wrap_walls THEN s.wrap_walls ELSE FALSE

\* the states an operation leaves when it returns
states_left(outcomes) == { o.g : o \in { x \in outcomes : ~x.hung } }

\* the Seeded handed to reset and to new_with_wrap: a clone of the Loop's, in
\* the state play left it in, and the one the application starts from
FreshRngs == { clone(loop.rng), Seeded_new(u64(42)) }

\* C35: reset(rng) leaves exactly the state that new_with_wrap(grid, rng,
\* wrap_walls) returns for the state's own grid and wrap flag and an RNG in
\* the same state: every field is equal, whatever the state was before.
C35_ResetIsNew ==
    ~hung =>
        /\ states_left(reset(features, g))
              = states_left(new_with_wrap(features, g.grid, wrap_flag(g)))
        /\ (\E o \in reset(features, g) : o.hung)
              <=> (\E o \in new_with_wrap(features, g.grid, wrap_flag(g)) : o.hung)
        /\ \A made \in { [anew |-> new_with_wrap_seeded(features, g.grid, wrap_flag(g), rng),
                       again |-> reset_seeded(features, g, rng)] : rng \in FreshRngs } :
            /\ made.anew # {}
            /\ made.again # {}
            /\ \A a \in made.anew : \A b \in made.again :
                  /\ a.hung = b.hung
                  /\ a.cut = b.cut
                  /\ a.rng = b.rng
                  /\ ~a.hung /\ ~a.cut => a.g = b.g

\* a game that is over, with a score and a snake away from the centre, is
\* reset and comes out as new
C35_Witness ==
    /\ ~hung
    /\ g.run_state = "Over"
    /\ g.score > 0
    /\ Len(g.snake.body) > 1
    /\ g.snake.dir # "Right"
    /\ features.wrap_walls /\ g.wrap_walls
    /\ loop.time > 0
    /\ \E rng \in {clone(loop.rng)} :
       \E b \in reset_seeded(features, g, rng) :
          /\ ~b.hung /\ ~b.cut
          /\ b.g # g
          /\ b.g.score = 0
          /\ b.g.wrap_walls
          /\ b.g.run_state = "Running"

\* the step from s that left outcome o ate a food: it moved the head onto a
\* cell that held one
ate(s, o) == o.path = <<"moved">> /\ holds_food(s, target(s))

\* C36: step draws from the RNG only when a food is eaten: a step that moves
\* without eating, a skipped Slow step, a step on a Paused or Over state, a
\* step that ends the game and a power-up collection leave the RNG unchanged.
C36_DrawsOnlyWhenEating ==
    ~hung =>
        \A s \in step_inputs : \A o \in step(features, s) :
            /\ o.hung \/ o.draws > 0 => ate(s, o) \/ (o.hung /\ holds_food(s, target(s)))
            /\ ~o.hung =>
                  /\ s.run_state \in {"Paused", "Over"} => o.draws = 0 /\ o.path = <<"refused">>
                  /\ o.path = <<"skipped">> => o.draws = 0
                  /\ o.g.run_state = "Over" => o.draws = 0
                  /\ o.path = <<"moved">> /\ ~holds_food(s, target(s)) => o.draws = 0
                  /\ /\ features.powerups
                     /\ s.powerup # None
                     /\ o.g.powerup = None
                     /\ ~holds_food(s, target(s))
                     => o.draws = 0

\* from one state a step collects a power-up without a draw, a step ends the
\* game without a draw, and a step eats the food and draws
C36_Witness ==
    /\ ~hung
    /\ g.run_state = "Running"
    /\ features.powerups
    /\ g.powerup # None
    /\ \E s \in step_inputs : \E o \in step(features, s) :
          /\ ~o.hung
          /\ o.path = <<"moved">>
          /\ o.g.powerup = None
          /\ o.draws = 0
    /\ \E s \in step_inputs : \E o \in step(features, s) :
          /\ ~o.hung
          /\ o.g.run_state = "Over"
          /\ o.draws = 0
    /\ \E s \in step_inputs : \E o \in step(features, s) :
          /\ ~o.hung
          /\ holds_food(s, target(s))
          /\ o.g.score > s.score
          /\ o.draws >= 2

\* C37: in every state reached from new by step, update, pause, resume and
\* reset calls, active_powerup is None, (Slow, d) with 1 <= d <= 20 or
\* (Fast, d) with 1 <= d <= 15; it is never Poison and never has remaining
\* duration 0, and slow_skip_counter is 0 whenever active_powerup is None.
C37_ActiveEffectInRange ==
    ~hung /\ features.powerups =>
        /\ \/ g.active_powerup = None
           \/ \E d \in 1..20 : g.active_powerup = <<<<"Slow", d>>>>
           \/ \E d \in 1..15 : g.active_powerup = <<<<"Fast", d>>>>
        /\ g.active_powerup = None => g.slow_skip_counter = 0

\* a paused game holds the last tick of a Fast effect that replaced a Slow one
\* and a skip counter above 0: the next update ends the effect and clears the
\* counter
C37_Witness ==
    /\ ~hung
    /\ features.powerups
    /\ g.run_state = "Paused"
    /\ g.active_powerup = <<<<"Fast", 1>>>>
    /\ g.slow_skip_counter > 0
    /\ \E o \in updated(g) :
          /\ ~o.hung
          /\ o.g.active_powerup = None
          /\ o.g.slow_skip_counter = 0

\* the power-up of s, if any, is on no cell of the snake
off_snake(s) == s.powerup # None => ~in_body(s, s.powerup[1].position)

\* C38: in every state reached from new by step, update, pause, resume and
\* reset calls, the power-up on the grid (if any) occupies no cell of the snake
\* body: it is placed off the snake and is removed in the very step in which
\* the head enters its cell.
C38_PowerUpOffSnake ==
    ~hung /\ features.powerups =>
        /\ off_snake(g)
        /\ \A o \in try_spawn_powerup(features, g) : ~o.hung => off_snake(o.g)
        /\ \A s \in step_inputs : \A o \in step(features, s) :
              ~o.hung =>
                  /\ off_snake(o.g)
                  /\ /\ s.powerup # None
                     /\ Head(o.g.snake.body) = s.powerup[1].position
                     => o.g.powerup = None
        /\ \A o \in updated(g) : ~o.hung => off_snake(o.g)
        /\ off_snake(pause(g))
        /\ off_snake(resume(g))
        /\ \A o \in reset(features, g) : ~o.hung => off_snake(o.g)

\* a snake of two segments or more has a power-up on the cell ahead; the step
\* puts the head on that cell and takes the power-up off the grid
C38_Witness ==
    /\ ~hung
    /\ features.powerups
    /\ g.run_state = "Running"
    /\ g.powerup # None
    /\ Len(g.snake.body) >= 2
    /\ \E s \in step_inputs : \E o \in step(features, s) :
          /\ ~o.hung
          /\ target(s) = s.powerup[1].position
          /\ Head(o.g.snake.body) = s.powerup[1].position
          /\ Len(o.g.snake.body) >= 2
          /\ o.g.powerup = None

\* C39: in every state reached from new by step and update calls,
\* 1 <= snake length <= score + 1; in the single-food build without power-ups
\* the snake length is score + 1 exactly.
C39_LengthWithinScore ==
    ~hung =>
        /\ 1 <= Len(g.snake.body)
        /\ Len(g.snake.body) <= g.score + 1
        /\ ~features.multiple_foods /\ ~features.powerups =>
              Len(g.snake.body) = g.score + 1
        /\ \A o \in updated(g) \cup UNION { step(features, s) : s \in step_inputs } :
              ~o.hung =>
                  /\ 1 <= Len(o.g.snake.body)
                  /\ Len(o.g.snake.body) <= o.g.score + 1
                  /\ ~features.multiple_foods /\ ~features.powerups =>
                        Len(o.g.snake.body) = o.g.score + 1

\* a snake that ate a food worth more than 1 point and is shorter than its
\* score + 1 eats again
C39_Witness ==
    /\ ~hung
    /\ features.multiple_foods
    /\ g.run_state = "Running"
    /\ Len(g.snake.body) = 2
    /\ g.score > 1
    /\ \E s \in step_inputs : \E o \in step(features, s) :
          /\ ~o.hung
          /\ Len(o.g.snake.body) = 3
          /\ o.g.score > s.score

\* the latch does not point against the direction it settled on
not_turned_back(input) == ~reversed(input.current_dir, input.last_settled_dir)

\* the keys pressed in one frame ask for the opposite of the settled direction
asks_reversal(input, keys) ==
    /\ requested_dir(keys) # None
    /\ reversed(requested_dir(keys)[1], input.last_settled_dir)

\* the latch after update, with the keys pressed, keeps the rule: it does not
\* point against the settled direction, which update leaves as it is, and a
\* request for the opposite of the settled direction changes nothing
latched(before, after, keys) ==
    /\ not_turned_back(after)
    /\ after.last_settled_dir = before.last_settled_dir
    /\ asks_reversal(before, keys) => after = before

\* C40: after any sequence of EguiInput::update (any keys pressed) and settle
\* calls, current_dir is never the opposite of last_settled_dir: a requested
\* direction opposite to last_settled_dir is ignored and leaves current_dir
\* unchanged, also when several keys are pressed between two settle calls.
C40_LatchNeverReversed ==
    \A input \in {app.input, app.loop_input} :
        /\ not_turned_back(input)
        /\ not_turned_back(settle(input))
        /\ \A first \in SUBSET Direction :
              LET once == EguiInput_update(input, first)
              IN  /\ latched(input, once, first)
                  /\ not_turned_back(settle(once))
                  /\ \A second \in SUBSET Direction :
                        LET twice == EguiInput_update(once, second)
                        IN  /\ latched(once, twice, second)
                            /\ not_turned_back(settle(twice))

\* a key pressed since the last settle has turned the latch; the key for the
\* opposite of the settled direction is pressed next and is ignored, though it
\* is no reversal of current_dir
C40_Witness ==
    /\ ~hung
    /\ app.input.current_dir # app.input.last_settled_dir
    /\ \E keys \in SUBSET Direction :
          /\ Cardinality(keys) = 1
          /\ asks_reversal(app.input, keys)
          /\ ~reversed(requested_dir(keys)[1], app.input.current_dir)
          /\ EguiInput_update(app.input, keys) = app.input

====
